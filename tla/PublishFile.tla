----------------------------- MODULE PublishFile -----------------------------
(***************************************************************************)
(* write_atomic (cli/cli.cpp): how an oxq process publishes an output file *)
(* through a sibling temporary file, one file system call per action, with *)
(* any number of processes at work in the same directory.                  *)
(*                                                                         *)
(* The directory maps names to files and a file is what was written to it, *)
(* so a file that is renamed stays open in a process that has it open.     *)
(* Every call may fail; the failures are nondeterministic.                 *)
(***************************************************************************)
EXTENDS Integers, SequencesExt, FiniteSetsExt

CONSTANTS
  Processes,
  Targets,       (* the output paths                                          *)
  MaxSuffix,     (* temporaries tried are .tmp.0 to .tmp.MaxSuffix; 999       *)
  Chunks,        (* the number of writes an output takes                      *)
  None

ASSUME PublishAssumption ==
  MaxSuffix \in Nat /\ Chunks \in Nat \ {0} /\ None \notin Nat

VARIABLES
  directory,     (* names to files, None where there is none                  *)
  files,         (* the content of every file ever created                    *)
  step,          (* where each process is in write_atomic                     *)
  target,        (* the path it publishes                                     *)
  suffix,        (* the temporary it tries or has                             *)
  handle,        (* the file it has open                                      *)
  written,       (* how many chunks it has written                            *)
  abandoned      (* history variable: temporaries that could not be removed   *)

publishVars == <<directory, files, step, target, suffix, handle, written, abandoned>>

(* The published file of a target has no suffix. *)
Names == Targets \X (0 .. MaxSuffix \cup {None})

Published(t) == <<t, None>>
Temporary(p) == <<target[p], suffix[p]>>

(* A whole output of process p. *)
Output(p) == [i \in 1 .. Chunks |-> p]

Exists(name) == directory[name] # None

Results == {"written", "exists", "failed"}

PublishInit ==
  /\ directory = [name \in Names |-> None]
  /\ files = <<>>
  /\ step = [p \in Processes |-> "idle"]
  /\ target = [p \in Processes |-> None]
  /\ suffix = [p \in Processes |-> 0]
  /\ handle = [p \in Processes |-> None]
  /\ written = [p \in Processes |-> 0]
  /\ abandoned = {}

Begin(p, t) ==
  /\ step[p] = "idle"
  /\ target' = [target EXCEPT ![p] = t]
  /\ step' = [step EXCEPT ![p] = "inspect"]
  /\ UNCHANGED <<directory, files, suffix, handle, written, abandoned>>

(* Mutant: the target is not looked for. *)
InspectNothing(p) ==
  /\ step[p] = "inspect"
  /\ step' = [step EXCEPT ![p] = "probe"]
  /\ suffix' = [suffix EXCEPT ![p] = 0]
  /\ UNCHANGED <<directory, files, target, handle, written, abandoned>>

(* An existing target is left alone; it may also be impossible to look, or  *)
(* to create the directory of the target.                                   *)
Inspect(p) ==
  /\ step[p] = "inspect"
  /\ \/ Exists(Published(target[p])) /\ step' = [step EXCEPT ![p] = "exists"]
     \/ ~Exists(Published(target[p])) /\ step' = [step EXCEPT ![p] = "probe"]
     \/ step' = [step EXCEPT ![p] = "failed"]
  /\ suffix' = [suffix EXCEPT ![p] = 0]
  /\ UNCHANGED <<directory, files, target, handle, written, abandoned>>

(* Mutant: the last name is tried, and then one more. *)
ProbeOnePast(p) ==
  /\ step[p] = "probe"
  /\ IF Exists(Temporary(p))
     THEN suffix' = [suffix EXCEPT ![p] = @ + 1] /\ UNCHANGED step
     ELSE step' = [step EXCEPT ![p] = "open"] /\ UNCHANGED suffix
  /\ UNCHANGED <<directory, files, target, handle, written, abandoned>>

(* Mutant: after the last name the search starts again. *)
ProbeAround(p) ==
  /\ step[p] = "probe"
  /\ IF Exists(Temporary(p))
     THEN suffix' = [suffix EXCEPT ![p] = (@ + 1) % (MaxSuffix + 1)] /\ UNCHANGED step
     ELSE step' = [step EXCEPT ![p] = "open"] /\ UNCHANGED suffix
  /\ UNCHANGED <<directory, files, target, handle, written, abandoned>>

(* The first temporary name nobody uses; there are MaxSuffix + 1 of them. *)
Probe(p) ==
  /\ step[p] = "probe"
  /\ \/ /\ ~Exists(Temporary(p))
        /\ step' = [step EXCEPT ![p] = "open"]
        /\ UNCHANGED suffix
     \/ /\ Exists(Temporary(p)) /\ suffix[p] < MaxSuffix
        /\ suffix' = [suffix EXCEPT ![p] = @ + 1]
        /\ UNCHANGED step
     \/ /\ Exists(Temporary(p)) /\ suffix[p] = MaxSuffix
        /\ step' = [step EXCEPT ![p] = "failed"]
        /\ UNCHANGED suffix
     \/ /\ step' = [step EXCEPT ![p] = "failed"]
        /\ UNCHANGED suffix
  /\ UNCHANGED <<directory, files, target, handle, written, abandoned>>

(* Opened for truncation: a new file, or the file of that name emptied. *)
Open(p) ==
  /\ step[p] = "open"
  /\ \/ /\ step' = [step EXCEPT ![p] = "failed"]
        /\ UNCHANGED <<directory, files, handle>>
     \/ /\ Exists(Temporary(p))
        /\ handle' = [handle EXCEPT ![p] = directory[Temporary(p)]]
        /\ files' = [files EXCEPT ![directory[Temporary(p)]] = <<>>]
        /\ step' = [step EXCEPT ![p] = "write"]
        /\ UNCHANGED directory
     \/ /\ ~Exists(Temporary(p))
        /\ handle' = [handle EXCEPT ![p] = Len(files) + 1]
        /\ files' = Append(files, <<>>)
        /\ directory' = [directory EXCEPT ![Temporary(p)] = Len(files) + 1]
        /\ step' = [step EXCEPT ![p] = "write"]
  /\ written' = [written EXCEPT ![p] = 0]
  /\ UNCHANGED <<target, suffix, abandoned>>

(* A chunk goes to the writer's own offset; a gap below it reads as None. *)
PutChunk(content, i, chunk) ==
  [j \in 1 .. Max({i, Len(content)}) |->
     IF j = i THEN chunk ELSE IF j <= Len(content) THEN content[j] ELSE None]

Write(p) ==
  /\ step[p] = "write"
  /\ written[p] < Chunks
  /\ files' = [files EXCEPT ![handle[p]] = PutChunk(@, written[p] + 1, p)]
  /\ written' = [written EXCEPT ![p] = @ + 1]
  /\ UNCHANGED <<directory, step, target, suffix, handle, abandoned>>

(* A failure removes the temporary, whatever has that name by now; that the *)
(* removal fails too goes unnoticed.                                        *)
CleanUp(name) ==
  \/ /\ directory' = [directory EXCEPT ![name] = None]
     /\ UNCHANGED abandoned
  \/ /\ abandoned' = abandoned \cup {name}
     /\ UNCHANGED directory

WriteFails(p) ==
  /\ step[p] = "write"
  /\ CleanUp(Temporary(p))
  /\ handle' = [handle EXCEPT ![p] = None]
  /\ step' = [step EXCEPT ![p] = "failed"]
  /\ UNCHANGED <<files, target, suffix, written>>

(* Mutant: closed, and renamed, before everything is written. *)
CloseUnflushed(p) ==
  /\ step[p] = "write"
  /\ handle' = [handle EXCEPT ![p] = None]
  /\ step' = [step EXCEPT ![p] = "rename"]
  /\ UNCHANGED <<directory, files, target, suffix, written, abandoned>>

Close(p) ==
  /\ step[p] = "write"
  /\ written[p] = Chunks
  /\ handle' = [handle EXCEPT ![p] = None]
  /\ step' = [step EXCEPT ![p] = "rename"]
  /\ UNCHANGED <<directory, files, target, suffix, written, abandoned>>

(* rename replaces whatever has the target's name. *)
Rename(p) ==
  /\ step[p] = "rename"
  /\ Exists(Temporary(p))
  /\ directory' = [directory EXCEPT ![Published(target[p])] = directory[Temporary(p)],
                                    ![Temporary(p)] = None]
  /\ step' = [step EXCEPT ![p] = "written"]
  /\ UNCHANGED <<files, target, suffix, handle, written, abandoned>>

(* Mutant: without the clean-up. *)
RenameFailsUncleaned(p) ==
  /\ step[p] = "rename"
  /\ step' = [step EXCEPT ![p] = "failed"]
  /\ UNCHANGED <<directory, files, target, suffix, handle, written, abandoned>>

RenameFails(p) ==
  /\ step[p] = "rename"
  /\ CleanUp(Temporary(p))
  /\ step' = [step EXCEPT ![p] = "failed"]
  /\ UNCHANGED <<files, target, suffix, handle, written>>

(* The caller takes the result. *)
Return(p, result) ==
  /\ result \in Results
  /\ step[p] = result
  /\ step' = [step EXCEPT ![p] = "idle"]
  /\ UNCHANGED <<directory, files, target, suffix, handle, written, abandoned>>

Advance(p) ==
  \/ Inspect(p)
  \/ Probe(p)
  \/ Open(p)
  \/ Write(p)
  \/ WriteFails(p)
  \/ Close(p)
  \/ Rename(p)
  \/ RenameFails(p)

-----------------------------------------------------------------------------
(* Properties *)

(* Every variable has its type. *)
PublishTypeOK ==
  /\ directory \in [Names -> {None} \cup DOMAIN files]
  /\ files \in Seq(Seq(Processes \cup {None}))
  /\ step \in [Processes -> Results \cup
                 {"idle", "inspect", "probe", "open", "write", "rename"}]
  /\ target \in [Processes -> Targets \cup {None}]
  /\ suffix \in [Processes -> 0 .. MaxSuffix]
  /\ handle \in [Processes -> {None} \cup DOMAIN files]
  /\ written \in [Processes -> 0 .. Chunks]
  /\ abandoned \subseteq Names

(* Whatever has the name of a target was written completely, by one process *)
(* (doc/cli.md: every new file is fully written, then renamed into place).  *)
PublishedComplete ==
  \A t \in Targets : Exists(Published(t)) =>
    \E p \in Processes : files[directory[Published(t)]] = Output(p)

(* An existing target is never replaced, removed or written to              *)
(* (doc/cli.md: an existing target is skipped and never overwritten).       *)
NeverOverwritten ==
  [][\A t \in Targets : Exists(Published(t)) =>
       /\ directory'[Published(t)] = directory[Published(t)]
       /\ files'[directory[Published(t)]] = files[directory[Published(t)]]]_publishVars
=============================================================================
