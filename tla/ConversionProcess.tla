-------------------------- MODULE ConversionProcess --------------------------
(***************************************************************************)
(* One ACC process and the state its conversions share: src/init.js        *)
(* (either one command-line conversion or the REST server), the server's   *)
(* POST /converter handler and error handler (src/src/server.js), main     *)
(* (src/src/main.js 173-196), the winston logger with its in-memory copy   *)
(* (src/src/util/log.js) and the file contents readFiles.js keeps.         *)
(*                                                                         *)
(* JavaScript runs one callback at a time; a step here is what runs        *)
(* between two points where another request's callbacks can get in: the    *)
(* end of an upload's extraction, and the await of mainRunner.             *)
(*                                                                         *)
(* Left out: what a conversion computes (its log lines are one warning and *)
(* one summary), the telemetry it starts (AssetId), the output file.       *)
(* External: winston hands a line to its transports before log.info        *)
(* returns; decompress settles every extraction.                           *)
(***************************************************************************)
EXTENDS Naturals, Sequences, SequencesExt

CONSTANTS
    Requests,       \* HTTP requests to the server
    Cli,            \* the command-line conversion
    Uploads,        \* the UCS files a conversion may come with
    LogFiles,       \* names for the log field and the --log option
    NoFile          \* no log file asked for

ASSUME CallersAssumption ==
    /\ Cli \notin Requests /\ NoFile \notin LogFiles
    /\ {Cli, "none"} \cap {"unread"} = {}

Callers == Requests \cup {Cli}

(* What extract makes of an upload: files; an archive it cannot read; or   *)
(* an archive none of whose files it keeps.                                *)
Verdicts == {"files", "corrupt", "empty"}

(* A conversion's input: its uploads, whether it converts, its log file.   *)
Input == [ucs : UNION {[S -> Verdicts] : S \in SUBSET Uploads},
          converts : BOOLEAN,
          log : LogFiles \cup {NoFile}]

Line == [by : Callers \cup {"boot"},
         what : {"listening", "extract", "error", "warning", "summary"}]

VARIABLES
    mode,           \* "serve" or "cli", process.argv[2]
    input,          \* each caller's input once it has called
    phase,          \* idle, extracting, awaiting (mainRunner), answered
    pending,        \* uploads whose extraction has not settled
    answers,        \* the statuses answered with
    logs,           \* result.metadata.logs
    output,         \* log.js: the lines since the last memory()
    transports,     \* the files the logger has a transport for
    logFile,        \* the lines the file transports have written
    data,           \* whose files readFiles.data holds
    license,        \* whose license a conversion looked at
    emitted,        \* history: every line logged
    served          \* history: callers in the order memory() served them

vars == <<mode, input, phase, pending, answers, logs, output, transports,
          logFile, data, license, emitted, served>>
-----------------------------------------------------------------------------
(* Slips one could make in the definitions below, for the mutation runs.   *)

ConfigureOnly(f) ==
    transports' = {f} \ {NoFile}

RejectedAs(r, statuses) ==
    /\ phase' = [phase EXCEPT ![r] = "answered"]
    /\ answers' = [answers EXCEPT ![r] = @ \o statuses]

RejectedSilently(r) == RejectedAs(r, << >>)

MemoryWithoutReset(r, lines) ==
    /\ logs' = [logs EXCEPT ![r] = output \o lines]
    /\ output' = output \o lines
    /\ served' = Append(served, r)

MemoryBeforeSummary(r, lines) ==
    /\ logs' = [logs EXCEPT ![r] = output]
    /\ output' = lines
    /\ served' = Append(served, r)

IsUnsettledAlways(r) == TRUE

-----------------------------------------------------------------------------
Listening == [by |-> "boot", what |-> "listening"]

Init ==
    /\ mode \in {"serve", "cli"}
    /\ input = [r \in Callers |-> [ucs |-> [u \in {} |-> "files"], converts |-> TRUE,
                                log |-> NoFile]]
    /\ phase = [r \in Callers |-> "idle"]
    /\ pending = [r \in Callers |-> {}]
    /\ answers = [r \in Callers |-> << >>]
    /\ logs = [r \in Callers |-> << >>]
    /\ output = IF mode = "serve" THEN <<Listening>> ELSE << >>
    /\ emitted = output
    /\ transports = {}
    /\ logFile = [f \in LogFiles |-> {}]
    /\ data = "none"
    /\ license = [r \in Callers |-> "unread"]
    /\ served = << >>

(* log.info and its like: every transport gets the line.  (A file that was *)
(* configured twice gets it twice.)                                        *)
Emit(lines) ==
    /\ emitted' = emitted \o lines
    /\ logFile' = [f \in LogFiles |-> IF f \in transports' THEN logFile[f] \cup ToSet(lines)
                                      ELSE logFile[f]]

Log(lines) == Emit(lines) /\ output' = output \o lines

(* log.configure: the transport is added and never removed.                *)
Configure(f) ==
    transports' = transports \cup ({f} \ {NoFile})

-----------------------------------------------------------------------------
(* server.js 37-73: the fields are read and every UCS starts extracting.   *)
Receive(r) ==
    /\ mode = "serve" /\ r \in Requests
    /\ phase[r] = "idle"
    /\ \E in \in Input :
        /\ input' = [input EXCEPT ![r] = in]
        /\ pending' = [pending EXCEPT ![r] = DOMAIN in.ucs]
    /\ phase' = [phase EXCEPT ![r] = "extracting"]
    /\ UNCHANGED <<mode, answers, logs, output, transports, logFile, data, license,
                   emitted, served>>

(* init.js 26-27 and main.js 175-180: the log file is configured before    *)
(* the files are read.                                                     *)
CliStart ==
    /\ mode = "cli"
    /\ phase[Cli] = "idle"
    /\ \E in \in Input :
        /\ \A u, v \in DOMAIN in.ucs : u = v      \* --ucs names one file
        /\ input' = [input EXCEPT ![Cli] = in]
        /\ pending' = [pending EXCEPT ![Cli] = DOMAIN in.ucs]
        /\ Configure(in.log)
    /\ phase' = [phase EXCEPT ![Cli] = "extracting"]
    /\ UNCHANGED <<mode, answers, logs, output, logFile, data, license, emitted,
                   served>>

(* A conversion's promise is rejected.  The server logs the error and      *)
(* answers 400 (97-100); the command line ends with the rejection.         *)
ErrorLines(r) == IF r = Cli THEN << >> ELSE <<[by |-> r, what |-> "error"]>>

Rejected(r) ==
    /\ phase' = [phase EXCEPT ![r] = "answered"]
    /\ answers' = [answers EXCEPT ![r] = Append(@, "400")]

(* An extraction ends well.                                                *)
ExtractDone(r, u) ==
    /\ u \in pending[r]
    /\ \/ input[r].ucs[u] = "files"
       \/ input[r].ucs[u] = "empty" /\ r = Cli     \* Object.assign({}, ...[])
    /\ pending' = [pending EXCEPT ![r] = @ \ {u}]
    /\ UNCHANGED <<mode, input, phase, answers, logs, output, transports, logFile,
                   data, license, emitted, served>>

(* A promise settles once: this one has not.                               *)
IsUnsettled(r) == phase[r] = "extracting"

(* An extraction fails: extract.js 57-60 logs a corrupt archive, server.js *)
(* 66 throws on an empty one.  The first failure of a request rejects its  *)
(* Promise.all; a later one finds it settled, but has logged all the same. *)
ExtractFails(r, u) ==
    /\ u \in pending[r]
    /\ UNCHANGED transports
    /\ \/ input[r].ucs[u] = "corrupt"
       \/ input[r].ucs[u] = "empty" /\ r # Cli
    /\ pending' = [pending EXCEPT ![r] = @ \ {u}]
    /\ LET extract == IF input[r].ucs[u] = "corrupt"
                      THEN <<[by |-> r, what |-> "extract"]>> ELSE << >>
       IN  IF IsUnsettled(r)
           THEN Log(extract \o ErrorLines(r)) /\ Rejected(r)
           ELSE Log(extract) /\ UNCHANGED <<phase, answers>>
    /\ UNCHANGED <<mode, input, logs, data, license, served>>

-----------------------------------------------------------------------------
(* main.js 173-187 up to the await: mainRunner runs through.  Paths read   *)
(* by readFiles stay in readFiles.data (readFiles.js 33-36); uploads do    *)
(* not pass through it.  The license and the certificates are looked up    *)
(* there (doConverter.js 34-41, loadCertsAndKeys.js 30).                   *)
RunMain(r) ==
    /\ phase[r] = "extracting"
    /\ pending[r] = {}
    /\ data' = IF r = Cli THEN r ELSE data
    /\ license' = [license EXCEPT ![r] = data']
    /\ IF r = Cli THEN UNCHANGED transports ELSE Configure(input[r].log)
    /\ LET warning == <<[by |-> r, what |-> "warning"]>>
       IN  IF input[r].converts
           THEN /\ Log(warning)
                /\ phase' = [phase EXCEPT ![r] = "awaiting"]
                /\ UNCHANGED answers
           ELSE Log(warning \o ErrorLines(r)) /\ Rejected(r)
    /\ UNCHANGED <<mode, input, pending, logs, served>>

(* log.memory (64-68): the lines since the last call, and none afterwards. *)
Memory(r, lines) ==
    /\ logs' = [logs EXCEPT ![r] = output \o lines]
    /\ output' = << >>
    /\ served' = Append(served, r)

(* main.js 189-195 and server.js 79-93: logObjects' summary, memory() and  *)
(* the answer, with the lines or without.                                  *)
Summary(r) == [by |-> r, what |-> "summary"]

Finish(r) ==
    /\ phase[r] = "awaiting"
    /\ UNCHANGED transports
    /\ Emit(<<Summary(r)>>)
    /\ Memory(r, <<Summary(r)>>)
    /\ phase' = [phase EXCEPT ![r] = "answered"]
    /\ answers' = [answers EXCEPT ![r] = Append(@, "201")]
    /\ UNCHANGED <<mode, input, pending, data, license>>

Progress(r) == \/ \E u \in Uploads : ExtractDone(r, u) \/ ExtractFails(r, u)
               \/ RunMain(r)
               \/ Finish(r)

Next == \/ CliStart
        \/ \E r \in Requests : Receive(r)
        \/ \E r \in Callers : Progress(r)

(* Callers need never call; once one has, the event loop runs every ready  *)
(* callback.                                                               *)
Spec == Init /\ [][Next]_vars /\ \A r \in Callers : WF_vars(Progress(r))
-----------------------------------------------------------------------------
TypeOK ==
    /\ mode \in {"serve", "cli"}
    /\ input \in [Callers -> Input]
    /\ phase \in [Callers -> {"idle", "extracting", "awaiting", "answered"}]
    /\ pending \in [Callers -> SUBSET Uploads]
    /\ answers \in [Callers -> Seq({"201", "400"})]
    /\ logs \in [Callers -> Seq(Line)]
    /\ output \in Seq(Line) /\ emitted \in Seq(Line) /\ served \in Seq(Callers)
    /\ transports \subseteq LogFiles
    /\ logFile \in [LogFiles -> SUBSET Line]
    /\ data \in {"none", Cli}
    /\ license \in [Callers -> {"unread", "none", Cli}]

(* The buffer loses no line and hands none out twice: what the answers got *)
(* and what is still buffered, in order, is everything ever logged.        *)
LinesDeliveredOnce ==
    emitted = FlattenSeq([k \in DOMAIN served |-> logs[served[k]]]) \o output

(* A served conversion takes its own lines with it: whichever requests it  *)
(* ran among, none is left for a later answer, and its summary is in its   *)
(* own.                                                                    *)
ServedLeavesNothing ==
    \A k \in DOMAIN served :
        /\ \E m \in DOMAIN logs[served[k]] : logs[served[k]][m] = Summary(served[k])
        /\ \A l \in ToSet(output) : l.by # served[k]
        /\ \A m \in k + 1 .. Len(served) :
               \A l \in ToSet(logs[served[m]]) : l.by # served[k]

(* A conversion that asked for a log file finds there every line main      *)
(* logged for it, whatever other conversions were logging.                 *)
LogFileComplete ==
    \A r \in Callers :
        answers[r] # << >> /\ license[r] # "unread" /\ input[r].log # NoFile =>
            \A l \in ToSet(emitted) :
                l.by = r /\ l.what \in {"warning", "summary"} =>
                    l \in logFile[input[r].log]

(* A caller is answered at most once, however many of its uploads fail and *)
(* however late.                                                           *)
AnsweredOnce == \A r \in Callers : Len(answers[r]) <= 1

(* Every conversion that was called is answered.                           *)
EveryCallAnswered ==
    \A r \in Callers : phase[r] = "extracting" ~> answers[r] # << >>

(* docs/userguide/getting_started.rst 48: certificates and keys are        *)
(* extracted if the input is a UCS file; doConverter.js 315: the license   *)
(* is taken from bigip.license.  So a conversion with a UCS looks at the   *)
(* files of its own input.                                                 *)
OwnLicense ==
    \A r \in Callers :
        answers[r] = <<"201">> /\ DOMAIN input[r].ucs # {} => license[r] = r
=============================================================================
