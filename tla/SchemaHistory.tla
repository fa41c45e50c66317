---- MODULE SchemaHistory ----
(***************************************************************************)
(* What migrating at startup promises, without sessions, locks or           *)
(* transactions: the schema has one history, no name is executed twice,     *)
(* a release executes a file only on top of all its earlier ones, and a     *)
(* process comes up only on a schema that has all of its release.  What     *)
(* other releases executed, and in which order, is not restricted.          *)
(***************************************************************************)
EXTENDS Naturals, Sequences

CONSTANTS Runs,      \* the processes that start, each start a run of its own
          Releases   \* the releases: the sets of the files they embed

VARIABLES history,   \* the migrations executed, in the order of their execution
          ready      \* the runs that came up

Executed == {history[i] : i \in DOMAIN history}

HInit == history = << >> /\ ready = {}

Upgrade(release, file) ==
  /\ \A done \in Executed : done.version # file.version
  /\ \A other \in release : other.version < file.version => other \in Executed
  /\ history' = Append(history, file)
  /\ UNCHANGED ready

ComesUp(r, release) ==
  /\ r \notin ready
  /\ release \subseteq Executed
  /\ ready' = ready \cup {r}
  /\ UNCHANGED history

HNext ==
  \E release \in Releases :
    \/ \E file \in release : Upgrade(release, file)
    \/ \E r \in Runs : ComesUp(r, release)

HSpec == HInit /\ [][HNext]_<<history, ready>>
====
