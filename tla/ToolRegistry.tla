----------------------------- MODULE ToolRegistry -----------------------------
(***************************************************************************)
(* ToolRegistry (src/orchestration/tools/registry.ts): the tools a model   *)
(* may call, under the names they were registered with, and the validators *)
(* their inputs are checked by.                                            *)
(*                                                                         *)
(* A definition is a plain one, whose schema is compiled when it is        *)
(* registered, or a function, asked again at every use: its schemas are    *)
(* compiled as they first come up and kept.  A compiled validator is the   *)
(* schema it was compiled from.                                            *)
(***************************************************************************)
EXTENDS Naturals, Sequences, SequencesExt, AnswerParts

CONSTANT Accepts   \* per schema that compiles, the inputs it accepts

(* A definition, and where it comes from.                                  *)
Source == [function : BOOLEAN, answers : [name : Name, schema : STRING]]

Compiles(schema) == schema \in DOMAIN Accepts

(* A map with a key that it may have already.                              *)
Having(map, key, value) ==
    [k \in DOMAIN map \union {key} |-> IF k \in DOMAIN map THEN map[k] ELSE value]

NewRegistry == [names |-> <<>>, source |-> <<>>, static |-> <<>>, dynamic |-> <<>>]

Has(registry, name) == name \in DOMAIN registry.source

(* Throws for a name that is taken, and for a plain definition whose schema *)
(* does not compile; the registry is then as it was.                       *)
Register(registry, source) ==
    LET definition == source.answers IN
    IF Has(registry, definition.name) \/ ~(source.function \/ Compiles(definition.schema))
    THEN registry
    ELSE [registry EXCEPT
            !.names = Append(@, definition.name),
            !.source = Having(@, definition.name, source),
            !.static = IF source.function THEN @ ELSE Having(@, definition.name, definition.schema)]

(* What the host registered one after the other.                           *)
Registered[sources \in Seq(Source)] ==
    IF sources = <<>> THEN NewRegistry ELSE Register(Registered[Front(sources)], Last(sources))

GetDefinitions(registry) ==
    [i \in DOMAIN registry.names |-> registry.source[registry.names[i]].answers]

(* The function's owner: it answers another schema from now on.            *)
Redefined(registry, name, schema) ==
    LET redefined == [function |-> TRUE, answers |-> [name |-> registry.source[name].answers.name, schema |-> schema]]
    IN  [registry EXCEPT !.source = [@ EXCEPT ![name] = redefined]]

-----------------------------------------------------------------------------
(* A function's validators are kept under the schema, not under the tool.  *)
KeptUnder(name, schema) == schema

(* The validator of a tool, and the registry that may have kept it.        *)
GetValidator(registry, name) ==
    LET schema == registry.source[name].answers.schema
        key == KeptUnder(name, schema)
        kept == Having(registry.dynamic, key, schema)
    IN  IF ~registry.source[name].function
        THEN [registry |-> registry, validator |-> registry.static[name]]
        ELSE IF Compiles(schema) \/ key \in DOMAIN registry.dynamic
             THEN [registry |-> [registry EXCEPT !.dynamic = kept], validator |-> kept[key]]
             ELSE [registry |-> registry, validator |-> schema]

Verdict(validator, input) ==
    IF ~Compiles(validator) THEN "throws"
    ELSE IF input \in Accepts[validator] THEN "runs" ELSE "invalid"

Execute(registry, call) ==
    IF ~Has(registry, call.name) THEN [registry |-> registry, answer |-> "missing"]
    ELSE LET checked == GetValidator(registry, call.name)
         IN  [registry |-> checked.registry, answer |-> Verdict(checked.validator, call.input)]

ExecuteAll(registry, calls) ==
    LET done[given \in Seq(Call)] ==
            IF given = <<>> THEN [registry |-> registry, answers |-> <<>>]
            ELSE LET before == done[Front(given)]
                     one == Execute(before.registry, Last(given))
                 IN  [registry |-> one.registry, answers |-> Append(before.answers, one.answer)]
    IN  done[calls]

-----------------------------------------------------------------------------
(* What execute promises of a call: the verdict of its tool's definition    *)
(* as that answers at the call.                                            *)
AsDefined(registry, call) ==
    IF ~Has(registry, call.name) THEN "missing"
    ELSE Verdict(registry.source[call.name].answers.schema, call.input)
=============================================================================
