---------------------------- MODULE SnapshotStore ----------------------------
(***************************************************************************)
(* The snapshot store of internal/storage/storage.go: files named by kind  *)
(* and second, written by os.WriteFile (open and truncate, then write),    *)
(* any step of which may fail.  With a bucket configured the answer is an  *)
(* s3:// address; nothing is ever sent there, and the local copy's error   *)
(* is dropped.                                                             *)
(*                                                                         *)
(* A LocalFileStore behaves like an S3SnapshotStore without bucket that    *)
(* falls back to it: [bucket |-> FALSE, local |-> TRUE].  Contents are     *)
(* numbers, growing with every save.                                       *)
(***************************************************************************)
EXTENDS Integers

CONSTANTS
    Stores,        \* the stores a process may be started with
    MaxSecond      \* bound: seconds explored

ASSUME StoreAssumption ==
    /\ Stores \subseteq [bucket : BOOLEAN, local : BOOLEAN]
    /\ MaxSecond \in Nat

VARIABLES
    store,         \* BucketName # "", LocalFallback # nil
    second,        \* the wall clock, as the file names show it
    files,         \* what the file of each kind and second holds
    saving,        \* the save in progress
    opened         \* history: the content last begun to be written to each file

storeVars == <<store, second, files, saving, opened>>

Kinds    == {"snapshot", "report"}
Seconds  == 0..MaxSecond
Missing  == -1          \* no such file
Torn     == -2          \* truncated, and not or not fully written
NoAnswer == [scheme |-> "none", at |-> 0]      \* "" and an error
URIs     == [scheme : {"file", "s3"}, at : Seconds] \cup {NoAnswer}

NotSaving == [stage |-> "none", kind |-> "snapshot", content |-> 0, at |-> 0, answer |-> NoAnswer]

InitStore ==
    /\ store \in Stores
    /\ second = 0
    /\ files = [k \in Kinds |-> [t \in Seconds |-> Missing]]
    /\ saving = NotSaving
    /\ opened = [k \in Kinds |-> [t \in Seconds |-> Missing]]

(* SaveSnapshot or SaveReport is called: with a bucket the key is made of  *)
(* the time now, without bucket and fallback the call is an error.         *)
BeginSave(kind, content) ==
    /\ saving' = [stage   |-> IF store.local THEN "stamp" ELSE "finished",
                  kind    |-> kind,
                  content |-> content,
                  at      |-> second,
                  answer  |-> IF store.bucket THEN [scheme |-> "s3", at |-> second] ELSE NoAnswer]
    /\ UNCHANGED <<store, second, files, opened>>

\* A local step fails: an error to the caller, or nothing where there is a bucket.
StepFails ==
    /\ saving.stage \in {"stamp", "open", "write"}
    /\ saving' = [saving EXCEPT !.stage = "finished"]
    /\ UNCHANGED <<store, second, files, opened>>

\* The local store reads the time anew and makes the directory.
Stamp ==
    /\ saving.stage = "stamp"
    /\ saving' = [saving EXCEPT !.stage = "open", !.at = second]
    /\ UNCHANGED <<store, second, files, opened>>

\* Mutated OpenFile: the path is the answer as soon as the file is there.
OpenAndAnswer ==
    /\ saving.stage = "open"
    /\ files' = [files EXCEPT ![saving.kind][saving.at] = Torn]
    /\ opened' = [opened EXCEPT ![saving.kind][saving.at] = saving.content]
    /\ saving' = [saving EXCEPT !.stage = "write",
                                !.answer = [scheme |-> "file", at |-> saving.at]]
    /\ UNCHANGED <<store, second>>

\* An existing file of the second is truncated.
OpenFile ==
    /\ saving.stage = "open"
    /\ files' = [files EXCEPT ![saving.kind][saving.at] = Torn]
    /\ opened' = [opened EXCEPT ![saving.kind][saving.at] = saving.content]
    /\ saving' = [saving EXCEPT !.stage = "write"]
    /\ UNCHANGED <<store, second>>

WriteFile ==
    /\ saving.stage = "write"
    /\ files' = [files EXCEPT ![saving.kind][saving.at] = saving.content]
    /\ saving' = [saving EXCEPT !.stage = "finished",
                                !.answer = IF store.bucket THEN @
                                           ELSE [scheme |-> "file", at |-> saving.at]]
    /\ UNCHANGED <<store, second, opened>>

SaveStep == StepFails \/ Stamp \/ OpenFile \/ WriteFile

\* The caller has its answer.
EndSave ==
    /\ saving.stage = "finished"
    /\ saving' = NotSaving
    /\ UNCHANGED <<store, second, files, opened>>

ClockAdvances ==
    /\ second < MaxSecond
    /\ second' = second + 1
    /\ UNCHANGED <<store, files, saving, opened>>

\* The process is killed; what is on disk stays as it is.
CrashStore ==
    /\ saving' = NotSaving
    /\ UNCHANGED <<store, second, files, opened>>

(* LoadSnapshot: only a path of a whole file can be read back; an s3://    *)
(* address is looked for on the local disk, where no save puts a file of   *)
(* that name, or refused.                                                  *)
Loads(uri, content) == uri.scheme = "file" /\ store.local /\ files["snapshot"][uri.at] = content

StoreTypeOK ==
    /\ store \in Stores
    /\ second \in Seconds
    /\ files \in [Kinds -> [Seconds -> Nat \cup {Missing, Torn}]]
    /\ saving.stage \in {"none", "stamp", "open", "write", "finished"}
    /\ saving.kind \in Kinds /\ saving.content \in Nat /\ saving.at \in Seconds
    /\ saving.answer \in URIs
    /\ opened \in [Kinds -> [Seconds -> Nat \cup {Missing}]]
=============================================================================
