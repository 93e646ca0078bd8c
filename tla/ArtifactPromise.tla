--------------------------- MODULE ArtifactPromise ---------------------------
(***************************************************************************)
(* What the V1 artifact repository promises its callers: under a kind and  *)
(* a run id there is one artifact, whole, published once and never changed *)
(* afterwards, and every answer is true when it is given.                  *)
(***************************************************************************)
EXTENDS Integers

CONSTANTS Calls, Kinds, RunIds, Artifacts, None

VARIABLES
    stored,     \* the artifact under each kind and run id
    said,       \* the last answer to each call
    runtime     \* the scikit-learn version of the interpreter

pvars == <<stored, said, runtime>>

Answer(what, kind, run, of) == [what |-> what, kind |-> kind, run |-> run, of |-> of]
Say(c, answer) == said' = [said EXCEPT ![c] = answer]

\* A versioned artifact can be rebuilt under its own version only.
Rebuilds(artifact, version) == ~artifact.versioned \/ artifact.version = version

PromiseInit ==
    /\ stored \in [Kinds -> [RunIds -> Artifacts \cup {None}]]
    /\ said = [c \in Calls |-> Answer("nothing", None, None, None)]
    /\ runtime = 1

Publish(c, kind, run, artifact) ==
    /\ Say(c, Answer("saved", kind, run, artifact))
    /\ stored[kind][run] = None
    /\ stored' = [stored EXCEPT ![kind][run] = artifact]

Conflict(c, kind, run, artifact) ==
    /\ Say(c, Answer("conflict", kind, run, artifact))
    /\ stored[kind][run] # None
    /\ UNCHANGED stored

Load(c, kind, run) ==
    /\ \/ Say(c, Answer("missing", kind, run, None)) /\ stored[kind][run] = None
       \/ /\ stored[kind][run] # None
          /\ Say(c, Answer(IF Rebuilds(stored[kind][run], runtime) THEN "loaded" ELSE "unreadable",
                           kind, run, stored[kind][run]))
    /\ UNCHANGED stored

List(c, kind) ==
    /\ Say(c, Answer("listed", kind, None, {run \in RunIds : stored[kind][run] # None}))
    /\ UNCHANGED stored

\* Input, schema or SQLite errors, and a process that died: nothing happened.
\* "nothing" is no answer yet, to a new question.
Refuse(c) ==
    /\ \E what \in {"nothing", "invalid", "schema", "failed", "died", "empty"} :
          Say(c, Answer(what, None, None, None))
    /\ UNCHANGED stored

\* A refusal or an answer that only repeats the last one is no step.
PromiseNext ==
    \/ /\ <<stored, said>>' # <<stored, said>>
       /\ \E c \in Calls :
             \/ \E kind \in Kinds, run \in RunIds :
                   \/ Load(c, kind, run)
                   \/ \E a \in Artifacts : Publish(c, kind, run, a) \/ Conflict(c, kind, run, a)
             \/ \E kind \in Kinds : List(c, kind)
             \/ Refuse(c)
       /\ UNCHANGED runtime
    \/ runtime' = runtime + 1 /\ UNCHANGED <<stored, said>>

Promise == PromiseInit /\ [][PromiseNext]_pvars
============================================================================
