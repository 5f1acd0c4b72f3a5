----------------------------- MODULE ClientFrames -----------------------------
(***************************************************************************)
(* The frames a client may send, and the verdict of validateMessage        *)
(* (src/transport/ws/validation.ts) on them.  A frame that is no object,   *)
(* has no type or an unknown one is of type "other".                       *)
(***************************************************************************)
EXTENDS Naturals

CONSTANTS
    MaxContentLength,   \* MAX_CONTENT_LENGTH
    MaxLimit            \* MAX_LIMIT, the store's own cap

ASSUME FrameBoundsAssumption == MaxContentLength \in Nat /\ MaxLimit \in Nat

(* Those VALIDATORS has an entry for, and the rest.                        *)
Types == {"user_message", "ping", "list_conversations", "other"}

(* A content is a string or not, blank or not, so long; a limit may be left *)
(* out, and may be no whole number; of a cursor, which halves are usable.  *)
ValidUserMessage(frame) ==
    frame.content.string /\ ~frame.content.blank /\ frame.content.length <= MaxContentLength

IsPage(limit) == limit.whole /\ limit.value \in 1..MaxLimit

(* A time of any number.                                                   *)
ValidPing(frame) == frame.timestamp

(* Both halves or neither.                                                 *)
IsCursor(before) == before.updatedAt /\ before.sessionId

ValidListConversations(frame) ==
    /\ frame.limit.given => IsPage(frame.limit)
    /\ frame.before.given => IsCursor(frame.before)

Valid(frame) ==
    CASE frame.type = "user_message" -> ValidUserMessage(frame)
      [] frame.type = "ping" -> ValidPing(frame)
      [] frame.type = "list_conversations" -> ValidListConversations(frame)
      [] frame.type = "other" -> FALSE

(* Read off the raw frame, before and whatever its validation says.        *)
IsUserMessageFrame(frame) == frame.type = "user_message"
=============================================================================
