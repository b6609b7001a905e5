---------------------------- MODULE ConvertBatch ----------------------------
(***************************************************************************)
(* oxq convert (cli/cli.cpp): processes that read their inputs one by one, *)
(* publish what they convert with write_atomic, count what happened and    *)
(* turn the counts into an exit code.  A process converts CBL libraries    *)
(* into one OXQ file per game, or all its OXQ inputs into one CBL file.    *)
(* It may be killed at any point.                                          *)
(***************************************************************************)
EXTENDS PublishFile

CONSTANTS
  Direction,     (* of each process: "to_oxq" or "to_cbl"                     *)
  Inputs,        (* of each process: a sequence of inputs; the input of a     *)
                 (* conversion to_oxq is the sequence of its games' targets   *)
  CblTarget,     (* the output file of the conversions to_cbl                 *)
  Overlapping    (* whether a process may start while another is running      *)

ASSUME BatchAssumption ==
  /\ Direction \in [Processes -> {"to_oxq", "to_cbl"}]
  /\ Inputs \in [Processes -> Seq(Seq(Targets)) \ {<<>>}]
  /\ (\E p \in Processes : Direction[p] = "to_cbl") => CblTarget \in Targets

VARIABLES
  phase,         (* "waiting", "running", "ended" or "killed"                 *)
  unread,        (* inputs still to read                                      *)
  games,         (* targets of the current input still to publish             *)
  decoded,       (* OXQ inputs read for the CBL file                          *)
  summary,       (* the counters behind the summary and the exit code         *)
  exit_code,
  wrote          (* history variable: the targets a process counts as written *)

batchVars == <<phase, unread, games, decoded, summary, exit_code, wrote>>
allVars == <<publishVars, batchVars>>

BatchInit ==
  /\ PublishInit
  /\ phase = [p \in Processes |-> "waiting"]
  /\ unread = Inputs
  /\ games = [p \in Processes |-> <<>>]
  /\ decoded = [p \in Processes |-> 0]
  /\ summary = [p \in Processes |->
                  [succeeded |-> 0, skipped |-> 0, failed |-> 0,
                   input_failures |-> 0, output_failures |-> 0, rejected |-> FALSE]]
  /\ exit_code = [p \in Processes |-> None]
  /\ wrote = [p \in Processes |-> {}]

Counted(p, counters) ==
  summary' = [summary EXCEPT ![p] = [field \in DOMAIN @ |->
                IF field \in counters THEN @[field] + 1 ELSE @[field]]]

Idle(p) == phase[p] = "running" /\ step[p] = "idle"

(* The output directory is created first; without one the process fails.    *)
Start(p) ==
  /\ phase[p] = "waiting"
  /\ Overlapping \/ \A q \in Processes : phase[q] # "running"
  /\ \/ phase' = [phase EXCEPT ![p] = "running"] /\ UNCHANGED <<summary, exit_code>>
     \/ /\ Direction[p] = "to_oxq"
        /\ phase' = [phase EXCEPT ![p] = "ended"]
        /\ exit_code' = [exit_code EXCEPT ![p] = 4]
        /\ Counted(p, {"failed"})
  /\ UNCHANGED <<publishVars, unread, games, decoded, wrote>>

(* The next input: unreadable or malformed, rejected by the conversion, or  *)
(* its games.                                                               *)
ReadCbl(p) ==
  /\ Idle(p) /\ Direction[p] = "to_oxq"
  /\ games[p] = <<>> /\ unread[p] # <<>>
  /\ unread' = [unread EXCEPT ![p] = Tail(@)]
  /\ \/ games' = [games EXCEPT ![p] = Head(unread[p])] /\ UNCHANGED summary
     \/ Counted(p, {"failed", "input_failures"}) /\ UNCHANGED games
     \/ /\ summary' = [summary EXCEPT ![p].rejected = TRUE, ![p].failed = @ + 1]
        /\ UNCHANGED games
  /\ UNCHANGED <<publishVars, phase, decoded, exit_code, wrote>>

ReadOxq(p) ==
  /\ Idle(p) /\ Direction[p] = "to_cbl"
  /\ unread[p] # <<>>
  /\ unread' = [unread EXCEPT ![p] = Tail(@)]
  /\ \/ decoded' = [decoded EXCEPT ![p] = @ + 1] /\ UNCHANGED summary
     \/ Counted(p, {"failed", "input_failures"}) /\ UNCHANGED decoded
  /\ games' = IF Tail(unread[p]) = <<>> /\ decoded'[p] > 0
              THEN [games EXCEPT ![p] = <<CblTarget>>] ELSE games
  /\ UNCHANGED <<publishVars, phase, exit_code, wrote>>

(* A game, or the library, is encoded before it is published. *)
Publish(p) ==
  /\ Idle(p) /\ games[p] # <<>>
  /\ Begin(p, Head(games[p]))
  /\ UNCHANGED batchVars

EncodeFails(p) ==
  /\ Idle(p) /\ games[p] # <<>>
  /\ games' = [games EXCEPT ![p] = Tail(@)]
  /\ Counted(p, {"failed", "output_failures"})
  /\ UNCHANGED <<publishVars, phase, unread, decoded, exit_code, wrote>>

(* The CBL writer's preflight rejects the library: the process ends here.   *)
Reject(p) ==
  /\ Idle(p) /\ games[p] # <<>> /\ Direction[p] = "to_cbl"
  /\ Counted(p, {"failed", "output_failures"})
  /\ phase' = [phase EXCEPT ![p] = "ended"]
  /\ exit_code' = [exit_code EXCEPT ![p] = 6]
  /\ UNCHANGED <<publishVars, unread, games, decoded, wrote>>

Counters(result) ==
  CASE result = "written" -> {"succeeded"}
    [] result = "exists"  -> {"skipped"}
    [] result = "failed"  -> {"failed", "output_failures"}

CountResult(p) ==
  /\ phase[p] = "running"
  /\ \E result \in Results :
       /\ Return(p, result)
       /\ Counted(p, Counters(result))
       /\ wrote' = IF result = "written"
                   THEN [wrote EXCEPT ![p] = @ \cup {target[p]}] ELSE wrote
  /\ games' = [games EXCEPT ![p] = Tail(@)]
  /\ UNCHANGED <<phase, unread, decoded, exit_code>>

(* Mutant: targets that were skipped are no failure. *)
summary_exit_without_skips(counts) ==
  IF counts.succeeded # 0 /\ counts.failed # 0 THEN 7
  ELSE IF counts.rejected THEN 6
  ELSE IF counts.output_failures # 0 THEN 4
  ELSE IF counts.input_failures # 0 THEN 3
  ELSE 0

summary_exit(counts) ==
  IF counts.succeeded # 0 /\ (counts.failed # 0 \/ counts.skipped # 0) THEN 7
  ELSE IF counts.rejected THEN 6
  ELSE IF counts.output_failures # 0 \/ counts.skipped # 0 THEN 4
  ELSE IF counts.input_failures # 0 THEN 3
  ELSE 0

Finish(p) ==
  /\ Idle(p) /\ unread[p] = <<>> /\ games[p] = <<>>
  /\ phase' = [phase EXCEPT ![p] = "ended"]
  /\ exit_code' = [exit_code EXCEPT ![p] = summary_exit(summary[p])]
  /\ UNCHANGED <<publishVars, unread, games, decoded, summary, wrote>>

(* A system call of write_atomic. *)
Call(p) ==
  /\ phase[p] = "running"
  /\ Advance(p)
  /\ UNCHANGED batchVars

(* Killed: what is in the directory stays there. *)
Kill(p) ==
  /\ phase[p] = "running"
  /\ phase' = [phase EXCEPT ![p] = "killed"]
  /\ handle' = [handle EXCEPT ![p] = None]
  /\ UNCHANGED <<directory, files, step, target, suffix, written, abandoned,
                 unread, games, decoded, summary, exit_code, wrote>>

Work(p) ==
  \/ Start(p)
  \/ ReadCbl(p)
  \/ ReadOxq(p)
  \/ Publish(p)
  \/ EncodeFails(p)
  \/ Reject(p)
  \/ CountResult(p)
  \/ Finish(p)
  \/ Call(p)

BatchNext == \E p \in Processes : Work(p) \/ Kill(p)

(* A process that is not killed is scheduled again and again. *)
BatchSpec ==
  /\ BatchInit
  /\ [][BatchNext]_allVars
  /\ \A p \in Processes : WF_allVars(Work(p))

-----------------------------------------------------------------------------
(* Properties *)

(* The batch variables have their types as well. *)
BatchTypeOK ==
  /\ PublishTypeOK
  /\ phase \in [Processes -> {"waiting", "running", "ended", "killed"}]
  /\ exit_code \in [Processes -> {None, 0, 3, 4, 6, 7}]
  /\ \A p \in Processes : exit_code[p] # None <=> phase[p] = "ended"

(* A temporary file left behind belongs to a process that is at work on it  *)
(* or was killed there, or the system refused to remove it: every failure   *)
(* of write_atomic tries to clean up after itself.                          *)
OnlyKilledLeaveTemporaries ==
  \A t \in Targets, k \in 0 .. MaxSuffix : Exists(<<t, k>>) =>
    \/ <<t, k>> \in abandoned
    \/ \E p \in Processes : /\ target[p] = t /\ suffix[p] = k
                            /\ step[p] \in {"write", "rename"}
                            /\ phase[p] \in {"running", "killed"}

(* What a process counts as written stays as it wrote it, to the end.       *)
WrittenRemains ==
  \A p \in Processes : \A t \in wrote[p] :
    Exists(Published(t)) /\ files[directory[Published(t)]] = Output(p)

(* The targets of all games of some inputs. *)
TargetsOf(inputs) == UNION {Range(inputs[i]) : i \in DOMAIN inputs}

RequestedTargets(p) ==
  IF Direction[p] = "to_cbl" THEN {CblTarget} ELSE TargetsOf(Inputs[p])

(* Exit code 0 says that all requested work succeeded: every target is in   *)
(* place with this process's output.  Code 7 says that some of it did, and  *)
(* codes 3, 4 and 6 that none did.                                          *)
ExitCodeTruthful ==
  \A p \in Processes :
    /\ exit_code[p] = 0 => wrote[p] = RequestedTargets(p)
    /\ exit_code[p] = 7 => wrote[p] # {}
    /\ exit_code[p] \in {3, 4, 6} => wrote[p] = {}

(* Every process ends, or is killed: no failure and no leftover temporary   *)
(* makes it search for ever.                                                *)
EveryProcessEnds ==
  \A p \in Processes : <>(phase[p] \in {"ended", "killed"})
=============================================================================
