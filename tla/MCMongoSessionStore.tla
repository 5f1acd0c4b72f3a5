------------------------- MODULE MCMongoSessionStore -------------------------
EXTENDS MongoSessionStore, TLC

(* Calls are interchangeable, and so are session ids.                      *)
Symmetric == Permutations(Calls) \union Permutations(Sessions)

(* Bound: the last of the calls is made where there is one session.        *)
Few == (\A c \in Calls : call[c].at # "new") => Cardinality(minted) <= 1

MCMongoSpec == MongoInit /\ [][MongoNext /\ Few']_mongoVars
=============================================================================
