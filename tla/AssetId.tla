------------------------------- MODULE AssetId -------------------------------
(***************************************************************************)
(* getAssetId of src/src/lib/analytics.js (42-50): every conversion with   *)
(* telemetry reads the .f5-acc dotfile for the id it reports and, when the *)
(* read fails, writes a new one.  The calls are conversions of any number  *)
(* of processes in one directory: requests of a server, or command lines.  *)
(*                                                                         *)
(* External: fs.writeFile opens the file with truncation and writes its    *)
(* text in a second step; fs.readFile sees the file as it is at one        *)
(* instant.                                                                *)
(*                                                                         *)
(* The state of one process is ConversionProcess; Id in the names below    *)
(* keeps the two apart.                                                    *)
(***************************************************************************)
CONSTANTS
    Calls,          \* calls of getAssetId; a call's new uuid is the call itself
    Absent,         \* there is no dotfile
    Empty,          \* the dotfile is empty
    Nothing         \* what a call that could not write reports

ASSUME ValuesAssumption ==
    /\ Absent # Empty /\ Absent # Nothing /\ Empty # Nothing
    /\ Calls \cap {Absent, Empty, Nothing} = {}

VARIABLES
    file,           \* the dotfile's content
    pc,             \* of each call: idle, read, open, write, done, crashed
    reported,       \* the id each call ends with
    expects,        \* history: the id that had settled when a call started
    raced,          \* history: of each call: another one was writing meanwhile
    torn,           \* history: a call ended after opening, before writing
    overlapped,     \* history: two calls were under way at once
    faulted         \* history: a call crashed, failed to write, or to read
                    \* a dotfile that is there

observed == <<expects, raced, torn, overlapped, faulted>>
idVars == <<file, pc, reported, observed>>
-----------------------------------------------------------------------------
UnderWay(a) == pc[a] \in {"read", "open", "write"}
Writing(a) == pc[a] \in {"open", "write"}

(* The dotfile holds an id, and no call is about to write another one.     *)
Settled == file \in Calls /\ \A a \in Calls : ~Writing(a)

-----------------------------------------------------------------------------
IdInit ==
    /\ file = Absent
    /\ pc = [a \in Calls |-> "idle"]
    /\ reported = [a \in Calls |-> Nothing]
    /\ expects = [a \in Calls |-> Nothing]
    /\ raced = [a \in Calls |-> FALSE]
    /\ torn = FALSE
    /\ overlapped = FALSE
    /\ faulted = FALSE

Start(a) ==
    /\ pc[a] = "idle"
    /\ pc' = [pc EXCEPT ![a] = "read"]
    /\ expects' = [expects EXCEPT ![a] = IF Settled THEN file ELSE Nothing]
    /\ raced' = [raced EXCEPT ![a] = \E b \in Calls : Writing(b)]
    /\ overlapped' = (overlapped \/ \E b \in Calls : UnderWay(b))
    /\ UNCHANGED <<file, reported, torn, faulted>>

(* Slips one could make in the definitions below, for the mutation runs.   *)
ResolveWithOwn(a, id) == /\ pc' = [pc EXCEPT ![a] = "done"]
                         /\ reported' = [reported EXCEPT ![a] = a]

ReadCreating(a) ==                  \* as with the flag w+
    /\ pc[a] = "read"
    /\ file # Absent
    /\ pc' = [pc EXCEPT ![a] = "done"]
    /\ reported' = [reported EXCEPT ![a] = Empty]
    /\ file' = Empty
    /\ UNCHANGED observed

Resolve(a, id) == /\ pc' = [pc EXCEPT ![a] = "done"]
                  /\ reported' = [reported EXCEPT ![a] = id]

(* Line 46: the file's text is the id, whatever it is.                     *)
Read(a) ==
    /\ pc[a] = "read"
    /\ file # Absent
    /\ Resolve(a, file)
    /\ UNCHANGED <<file, observed>>

(* Line 47: after any error of the read, not just that of a file that is   *)
(* missing, the call goes on to write its own id.  Where the file is there *)
(* (no permission, no descriptor left), no call under way can expect the   *)
(* id it holds any longer.                                                 *)
ReadFails(a) ==
    /\ pc[a] = "read"
    /\ pc' = [pc EXCEPT ![a] = "open"]
    /\ raced' = [b \in Calls |-> raced[b] \/ (b # a /\ UnderWay(b))]
    /\ faulted' = (faulted \/ file # Absent)
    /\ expects' = IF file = Absent
                  THEN expects
                  ELSE [b \in Calls |-> IF UnderWay(b) THEN Nothing ELSE expects[b]]
    /\ UNCHANGED <<file, reported, torn, overlapped>>

(* writeFile opens the file, which another call may have written since.    *)
Open(a) ==
    /\ pc[a] = "open"
    /\ file' = Empty
    /\ pc' = [pc EXCEPT ![a] = "write"]
    /\ UNCHANGED <<reported, observed>>

(* Lines 47-48.                                                            *)
Write(a) ==
    /\ pc[a] = "write"
    /\ file' = a
    /\ Resolve(a, a)
    /\ UNCHANGED observed

(* Line 49: neither read nor written, the id stays undefined.              *)
WriteFails(a) ==
    /\ Writing(a)
    /\ Resolve(a, Nothing)
    /\ torn' = (torn \/ pc[a] = "write")
    /\ faulted' = TRUE
    /\ UNCHANGED <<file, expects, raced, overlapped>>

(* The process of a call ends before the call does.                        *)
Crash(a) ==
    /\ UnderWay(a)
    /\ pc' = [pc EXCEPT ![a] = "crashed"]
    /\ torn' = (torn \/ pc[a] = "write")
    /\ faulted' = TRUE
    /\ UNCHANGED <<file, reported, expects, raced, overlapped>>

IdStep(a) == Read(a) \/ ReadFails(a) \/ Open(a) \/ Write(a) \/ WriteFails(a)

IdNext == \E a \in Calls : Start(a) \/ IdStep(a) \/ Crash(a)

IdSpec == IdInit /\ [][IdNext]_idVars
-----------------------------------------------------------------------------
IdTypeOK ==
    /\ file \in Calls \cup {Absent, Empty}
    /\ pc \in [Calls -> {"idle", "read", "open", "write", "done", "crashed"}]
    /\ reported \in [Calls -> Calls \cup {Empty, Nothing}]
    /\ expects \in [Calls -> Calls \cup {Nothing}]
    /\ raced \in [Calls -> BOOLEAN]
    /\ torn \in BOOLEAN
    /\ overlapped \in BOOLEAN
    /\ faulted \in BOOLEAN

(* A call that starts when an id has settled reports that id, whatever     *)
(* raced, crashed or failed before it and whatever runs beside it, unless  *)
(* a read of the dotfile, its own or another's, fails while it is there    *)
(* and the id is overwritten (analytics.js 46-47).                         *)
SettledIdIsReported ==
    \A a \in Calls :
        pc[a] = "done" /\ expects[a] # Nothing => reported[a] = expects[a]

(* An empty id is reported only where the two steps of writeFile explain   *)
(* it: another call was writing while this one was under way, or one ended *)
(* between them before (analytics.js 46-48).                               *)
EmptyOnlyForCause ==
    \A a \in Calls :
        pc[a] = "done" /\ reported[a] = Empty => raced[a] \/ torn

(* Conversions that run one after the other, with no failure among them,   *)
(* all report the same id.                                                 *)
SequentialCallsAgree ==
    ~overlapped /\ ~faulted =>
        \A a, b \in Calls :
            pc[a] = "done" /\ pc[b] = "done" => reported[a] = reported[b]

(* The ids that calls report differ, and are empty, only for these causes  *)
(* (analytics.js 42-50).                                                   *)
IdsVaryOnlyForCause == SequentialCallsAgree /\ EmptyOnlyForCause

=============================================================================
