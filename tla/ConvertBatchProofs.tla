------------------------- MODULE ConvertBatchProofs -------------------------
(***************************************************************************)
(* Proofs about ConvertBatch, for any number of processes, targets, inputs *)
(* and temporary names: what is in the directory, in whatever way system   *)
(* calls fail and processes are killed.                                    *)
(***************************************************************************)
EXTENDS ConvertBatch, TLAPS

Contents == Seq(Processes \cup {None})

(* A process is in write_atomic only while it runs, or where it was killed, *)
(* for the first of its games; it writes to a file it has open.             *)
Engaged(p) ==
  /\ phase[p] \in {"waiting", "ended"} => step[p] = "idle"
  /\ step[p] # "idle" => games[p] # <<>> /\ target[p] = Head(games[p])
  /\ phase[p] = "running" /\ step[p] = "write" => handle[p] \in DOMAIN files

Steps == Results \cup {"idle", "inspect", "probe", "open", "write", "rename"}
Phases == {"waiting", "running", "ended", "killed"}
Codes == {None, 0, 3, 4, 6, 7}

(* The types of all variables but the counters. *)
Typed ==
  /\ BatchTypeOK
  /\ unread \in [Processes -> Seq(Seq(Targets))]
  /\ games \in [Processes -> Seq(Targets)]
  /\ wrote \in [Processes -> SUBSET Targets]
  /\ \A p \in Processes : Engaged(p)

(* What the file system calls of a running process need. *)
LEMMA MaxOfTwo ==
  ASSUME NEW a \in Nat, NEW b \in Nat
  PROVE  Max({a, b}) = IF a >= b THEN a ELSE b
BY DEF Max

LEMMA PutChunkType ==
  ASSUME NEW content \in Contents, NEW i \in Nat \ {0}, NEW p \in Processes
  PROVE  PutChunk(content, i, p) \in Contents
<1> DEFINE n == Max({i, Len(content)})
           put == [j \in 1 .. n |-> IF j = i THEN p
                                    ELSE IF j <= Len(content) THEN content[j] ELSE None]
<1>1. Len(content) \in Nat
  BY DEF Contents
<1>2. n \in Nat
  BY <1>1, MaxOfTwo
<1>3. \A j \in 1 .. Len(content) : content[j] \in Processes \cup {None}
  BY DEF Contents
<1>4. put \in [1 .. n -> Processes \cup {None}]
  BY <1>1, <1>2, <1>3
<1>5. put \in Seq(Processes \cup {None})
  <2> HIDE DEF put, n
  <2>1. QED
    BY <1>2, <1>4
<1>6. QED
  BY <1>5 DEF PutChunk, Contents

(* The chunks of a file only its own process writes to. *)
LEMMA PutNextChunk ==
  ASSUME NEW n \in Nat, NEW p \in Processes
  PROVE  PutChunk([i \in 1 .. n |-> p], n + 1, p) = [i \in 1 .. n + 1 |-> p]
<1>1. Len([i \in 1 .. n |-> p]) = n
  OBVIOUS
<1>2. Max({n + 1, Len([i \in 1 .. n |-> p])}) = n + 1
  BY <1>1, MaxOfTwo
<1>3. QED
  BY <1>1, <1>2 DEF PutChunk

LEMMA HeadTailType ==
  ASSUME NEW S, NEW seq \in Seq(S), seq # <<>>
  PROVE  Head(seq) \in S /\ Tail(seq) \in Seq(S)
OBVIOUS

LEMMA ExitCodes == \A counts : summary_exit(counts) \in {0, 3, 4, 6, 7}
BY DEF summary_exit

LEMMA InitTyped == BatchInit => Typed
BY PublishAssumption, BatchAssumption
   DEF BatchInit, PublishInit, Typed, Engaged, BatchTypeOK, PublishTypeOK, Names

(* What Typed says of single variables and of a process, for the proofs     *)
(* that do without its definition.                                          *)
LEMMA TypedFacts ==
  ASSUME Typed
  PROVE  /\ directory \in [Names -> {None} \cup DOMAIN files]
         /\ handle \in [Processes -> {None} \cup DOMAIN files]
         /\ files \in Seq(Contents) /\ abandoned \subseteq Names
         /\ suffix \in [Processes -> 0 .. MaxSuffix]
         /\ written \in [Processes -> 0 .. Chunks]
         /\ step \in [Processes -> Steps]
         /\ target \in [Processes -> Targets \cup {None}]
         /\ phase \in [Processes -> Phases]
         /\ exit_code \in [Processes -> Codes]
         /\ unread \in [Processes -> Seq(Seq(Targets))]
         /\ games \in [Processes -> Seq(Targets)]
         /\ wrote \in [Processes -> SUBSET Targets]
         /\ \A p \in Processes :
              Engaged(p) /\ (exit_code[p] # None <=> phase[p] = "ended")
BY DEF Typed, BatchTypeOK, PublishTypeOK, Contents, Steps, Phases, Codes

LEMMA FactsTyped ==
  ASSUME directory' \in [Names -> {None} \cup DOMAIN files'],
         handle' \in [Processes -> {None} \cup DOMAIN files'],
         files' \in Seq(Contents), abandoned' \subseteq Names,
         suffix' \in [Processes -> 0 .. MaxSuffix],
         written' \in [Processes -> 0 .. Chunks],
         step' \in [Processes -> Steps],
         target' \in [Processes -> Targets \cup {None}],
         phase' \in [Processes -> Phases],
         exit_code' \in [Processes -> Codes],
         unread' \in [Processes -> Seq(Seq(Targets))],
         games' \in [Processes -> Seq(Targets)],
         wrote' \in [Processes -> SUBSET Targets],
         \A p \in Processes :
           Engaged(p)' /\ (exit_code'[p] # None <=> phase'[p] = "ended")
  PROVE  Typed'
BY DEF Typed, BatchTypeOK, PublishTypeOK, Contents, Steps, Phases, Codes

(* The target of a process in write_atomic. *)
LEMMA EngagedTarget ==
  ASSUME Typed, NEW p \in Processes, step[p] # "idle"
  PROVE  /\ target[p] \in Targets
         /\ Temporary(p) \in Names /\ Published(target[p]) \in Names
<1>1. games[p] \in Seq(Targets) /\ games[p] # <<>> /\ target[p] = Head(games[p])
  BY TypedFacts DEF Engaged
<1>2. target[p] \in Targets
  BY <1>1
<1>3. suffix[p] \in 0 .. MaxSuffix
  BY TypedFacts
<1>4. QED
  BY <1>2, <1>3 DEF Names, Temporary, Published

(* A running process goes on to another step of write_atomic. *)
LEMMA StepTyped ==
  ASSUME Typed, NEW p \in Processes, phase[p] = "running", step[p] # "idle",
         NEW s \in Steps, step' = [step EXCEPT ![p] = s],
         suffix' \in [Processes -> 0 .. MaxSuffix], written' \in [Processes -> 0 .. Chunks],
         files' \in Seq(Contents), DOMAIN files \subseteq DOMAIN files',
         directory' \in [Names -> {None} \cup DOMAIN files'],
         handle' \in [Processes -> {None} \cup DOMAIN files'],
         \A q \in Processes : handle'[q] = handle[q] \/ q = p,
         s = "write" => handle'[p] \in DOMAIN files',
         abandoned' \subseteq Names,
         UNCHANGED <<target, phase, exit_code, unread, games, wrote>>
  PROVE  Typed'
<1>1. step' \in [Processes -> Steps] /\ step'[p] = s
  BY TypedFacts
<1>2. ASSUME NEW q \in Processes
      PROVE  Engaged(q)'
  <2>1. Engaged(q) /\ Engaged(p)
    BY TypedFacts
  <2>2. CASE q = p
    BY <1>1, <2>1, <2>2 DEF Engaged, Steps
  <2>3. CASE q # p
    <3>1. step'[q] = step[q] /\ handle'[q] = handle[q]
      BY <2>3, TypedFacts
    <3>2. QED
      BY <2>1, <3>1 DEF Engaged
  <2>4. QED
    BY <2>2, <2>3
<1>3. /\ target' \in [Processes -> Targets \cup {None}]
      /\ phase' \in [Processes -> Phases]
      /\ exit_code' \in [Processes -> Codes]
      /\ unread' \in [Processes -> Seq(Seq(Targets))]
      /\ games' \in [Processes -> Seq(Targets)]
      /\ wrote' \in [Processes -> SUBSET Targets]
      /\ \A q \in Processes : exit_code'[q] # None <=> phase'[q] = "ended"
  BY TypedFacts
<1>4. QED
  BY <1>1, <1>2, <1>3, FactsTyped

(* The system calls keep the types. *)
LEMMA CallTyped ==
  ASSUME Typed, NEW p \in Processes, Call(p)
  PROVE  Typed'
<1>1. phase[p] = "running" /\ UNCHANGED batchVars
  BY DEF Call
<1>2. UNCHANGED <<phase, exit_code, unread, games, wrote>>
  BY <1>1 DEF batchVars
<1>3. step[p] # "idle" => Temporary(p) \in Names /\ Published(target[p]) \in Names
  BY EngagedTarget
<1>4. /\ directory \in [Names -> {None} \cup DOMAIN files]
      /\ handle \in [Processes -> {None} \cup DOMAIN files]
      /\ files \in Seq(Contents) /\ abandoned \subseteq Names
      /\ suffix \in [Processes -> 0 .. MaxSuffix]
      /\ written \in [Processes -> 0 .. Chunks]
      /\ step \in [Processes -> Steps]
      /\ Engaged(p)
  BY TypedFacts
<1>5. {"failed", "exists", "written", "probe", "open", "write", "rename"} \subseteq Steps
  BY DEF Steps, Results
<1>6. CASE Inspect(p)
  <2>1. suffix' \in [Processes -> 0 .. MaxSuffix]
    BY <1>4, <1>6, PublishAssumption DEF Inspect
  <2>2. PICK s \in {"exists", "probe", "failed"} : step' = [step EXCEPT ![p] = s]
    BY <1>6 DEF Inspect
  <2>3. QED
    BY <1>1, <1>2, <1>4, <1>5, <1>6, <2>1, <2>2, StepTyped DEF Inspect
<1>7. CASE Probe(p)
  <2>1. suffix' \in [Processes -> 0 .. MaxSuffix]
    <3>1. CASE UNCHANGED suffix
      BY <1>4, <3>1
    <3>2. CASE suffix[p] < MaxSuffix /\ suffix' = [suffix EXCEPT ![p] = @ + 1]
      <4>1. suffix[p] + 1 \in 0 .. MaxSuffix
        BY <1>4, <3>2, PublishAssumption
      <4>2. QED
        BY <1>4, <3>2, <4>1
    <3>3. QED
      BY <1>7, <3>1, <3>2 DEF Probe
  <2>2. PICK s \in {"open", "probe", "failed"} : step' = [step EXCEPT ![p] = s]
    BY <1>4, <1>7 DEF Probe
  <2>3. QED
    BY <1>1, <1>2, <1>4, <1>5, <1>7, <2>1, <2>2, StepTyped DEF Probe
<1>8. CASE Open(p)
  <2>1. step[p] = "open" /\ Temporary(p) \in Names
    BY <1>3, <1>8 DEF Open
  <2>2. written' \in [Processes -> 0 .. Chunks] /\ UNCHANGED <<target, suffix, abandoned>>
    BY <1>4, <1>8, PublishAssumption DEF Open
  <2>3. CASE step' = [step EXCEPT ![p] = "failed"] /\ UNCHANGED <<directory, files, handle>>
    BY <1>1, <1>2, <1>4, <1>5, <2>1, <2>2, <2>3, StepTyped
  <2>4. CASE /\ Exists(Temporary(p))
             /\ handle' = [handle EXCEPT ![p] = directory[Temporary(p)]]
             /\ files' = [files EXCEPT ![directory[Temporary(p)]] = <<>>]
             /\ step' = [step EXCEPT ![p] = "write"]
             /\ UNCHANGED directory
    <3>1. directory[Temporary(p)] \in DOMAIN files
      BY <1>4, <2>1, <2>4 DEF Exists
    <3>2. files' \in Seq(Contents) /\ DOMAIN files' = DOMAIN files
      BY <1>4, <2>4, <3>1 DEF Contents
    <3>3. /\ handle' \in [Processes -> {None} \cup DOMAIN files']
          /\ \A q \in Processes : handle'[q] = handle[q] \/ q = p
          /\ handle'[p] \in DOMAIN files'
      BY <1>4, <2>4, <3>1, <3>2
    <3>4. QED
      BY <1>1, <1>2, <1>4, <1>5, <2>1, <2>2, <2>4, <3>2, <3>3, StepTyped
  <2>5. CASE /\ handle' = [handle EXCEPT ![p] = Len(files) + 1]
             /\ files' = Append(files, <<>>)
             /\ directory' = [directory EXCEPT ![Temporary(p)] = Len(files) + 1]
             /\ step' = [step EXCEPT ![p] = "write"]
    <3>1. /\ files' \in Seq(Contents)
          /\ DOMAIN files \subseteq DOMAIN files'
          /\ Len(files) + 1 \in DOMAIN files'
      BY <1>4, <2>5 DEF Contents
    <3>2. /\ directory' \in [Names -> {None} \cup DOMAIN files']
          /\ handle' \in [Processes -> {None} \cup DOMAIN files']
          /\ \A q \in Processes : handle'[q] = handle[q] \/ q = p
          /\ handle'[p] \in DOMAIN files'
      BY <1>4, <2>1, <2>5, <3>1
    <3>3. QED
      BY <1>1, <1>2, <1>4, <1>5, <2>1, <2>2, <2>5, <3>1, <3>2, StepTyped
  <2>6. QED
    BY <1>8, <2>3, <2>4, <2>5 DEF Open
<1>9. CASE Write(p)
  <2>1. handle[p] \in DOMAIN files /\ written[p] + 1 \in 1 .. Chunks /\ step[p] = "write"
    BY <1>1, <1>4, <1>9, PublishAssumption DEF Write, Engaged
  <2>2. files[handle[p]] \in Contents
    BY <1>4, <2>1
  <2>3. PutChunk(files[handle[p]], written[p] + 1, p) \in Contents
    BY <2>1, <2>2, PublishAssumption, PutChunkType
  <2>4. files' \in Seq(Contents) /\ DOMAIN files' = DOMAIN files
    BY <1>4, <1>9, <2>1, <2>3 DEF Write
  <2>5. written' \in [Processes -> 0 .. Chunks] /\ step' = [step EXCEPT ![p] = "write"]
    BY <1>4, <1>9, <2>1, PublishAssumption DEF Write
  <2>6. QED
    BY <1>1, <1>2, <1>4, <1>5, <1>9, <2>1, <2>4, <2>5, StepTyped DEF Write
<1>10. CASE WriteFails(p) \/ RenameFails(p)
  <2>1. Temporary(p) \in Names
    BY <1>3, <1>10 DEF WriteFails, RenameFails
  <2>2. directory' \in [Names -> {None} \cup DOMAIN files] /\ abandoned' \subseteq Names
    BY <1>4, <1>10, <2>1 DEF WriteFails, RenameFails, CleanUp
  <2>3. handle' \in [Processes -> {None} \cup DOMAIN files]
    BY <1>4, <1>10 DEF WriteFails, RenameFails
  <2>4. QED
    BY <1>1, <1>2, <1>4, <1>5, <1>10, <2>2, <2>3, StepTyped DEF WriteFails, RenameFails
<1>11. CASE Close(p)
  BY <1>1, <1>2, <1>4, <1>5, <1>11, StepTyped DEF Close
<1>12. CASE Rename(p)
  <2>1. directory' \in [Names -> {None} \cup DOMAIN files]
    BY <1>3, <1>4, <1>12 DEF Rename
  <2>2. QED
    BY <1>1, <1>2, <1>4, <1>5, <1>12, <2>1, StepTyped DEF Rename
<1>13. QED
  BY <1>6, <1>7, <1>8, <1>9, <1>10, <1>11, <1>12 DEF Call, Advance

(* A process does something else than a system call. *)
LEMMA OtherTyped ==
  ASSUME Typed, NEW p \in Processes,
         UNCHANGED <<directory, files, suffix, written, abandoned>>,
         step' \in [Processes -> Steps],
         target' \in [Processes -> Targets \cup {None}],
         handle' \in [Processes -> {None} \cup DOMAIN files],
         phase' \in [Processes -> Phases],
         exit_code' \in [Processes -> Codes],
         unread' \in [Processes -> Seq(Seq(Targets))],
         games' \in [Processes -> Seq(Targets)],
         wrote' \in [Processes -> SUBSET Targets],
         \A q \in Processes \ {p} :
           /\ step'[q] = step[q] /\ target'[q] = target[q] /\ handle'[q] = handle[q]
           /\ phase'[q] = phase[q] /\ exit_code'[q] = exit_code[q] /\ games'[q] = games[q],
         Engaged(p)', exit_code'[p] # None <=> phase'[p] = "ended"
  PROVE  Typed'
<1>1. /\ directory' \in [Names -> {None} \cup DOMAIN files']
      /\ files' \in Seq(Contents) /\ abandoned' \subseteq Names
      /\ suffix' \in [Processes -> 0 .. MaxSuffix]
      /\ written' \in [Processes -> 0 .. Chunks]
      /\ handle' \in [Processes -> {None} \cup DOMAIN files']
  BY TypedFacts
<1>2. ASSUME NEW q \in Processes
      PROVE  Engaged(q)' /\ (exit_code'[q] # None <=> phase'[q] = "ended")
  <2>1. CASE q = p
    BY <2>1
  <2>2. CASE q # p
    <3>1. Engaged(q) /\ (exit_code[q] # None <=> phase[q] = "ended")
      BY TypedFacts
    <3>2. QED
      BY <2>2, <3>1 DEF Engaged
  <2>3. QED
    BY <2>1, <2>2
<1>3. QED
  BY <1>1, <1>2, FactsTyped

(* So do the steps of the batch. *)
LEMMA BatchTyped ==
  ASSUME Typed, [BatchNext]_allVars
  PROVE  Typed'
<1>1. CASE UNCHANGED allVars
  <2>1. \A p \in Processes : Engaged(p)'
    BY <1>1, TypedFacts DEF allVars, publishVars, batchVars, Engaged
  <2>2. QED
    BY <1>1, <2>1, TypedFacts, FactsTyped DEF allVars, publishVars, batchVars
<1>2. /\ handle \in [Processes -> {None} \cup DOMAIN files]
      /\ step \in [Processes -> Steps]
      /\ target \in [Processes -> Targets \cup {None}]
      /\ phase \in [Processes -> Phases]
      /\ exit_code \in [Processes -> Codes]
      /\ unread \in [Processes -> Seq(Seq(Targets))]
      /\ games \in [Processes -> Seq(Targets)]
      /\ wrote \in [Processes -> SUBSET Targets]
      /\ \A q \in Processes : Engaged(q) /\ (exit_code[q] # None <=> phase[q] = "ended")
  BY TypedFacts
<1>3. ASSUME NEW p \in Processes, Start(p)
      PROVE  Typed'
  <2>1. /\ UNCHANGED <<directory, files, step, target, suffix, handle, written, abandoned,
                       unread, games, wrote>>
        /\ phase[p] = "waiting"
    BY <1>3 DEF Start, publishVars
  <2>2. CASE phase' = [phase EXCEPT ![p] = "running"] /\ UNCHANGED exit_code
    <3>1. phase' \in [Processes -> Phases] /\ phase'[p] = "running"
      BY <1>2, <2>2 DEF Phases
    <3>2. exit_code'[p] = None /\ Engaged(p)'
      BY <1>2, <2>1, <2>2, <3>1 DEF Engaged
    <3>3. QED
      BY <1>2, <2>1, <2>2, <3>1, <3>2, OtherTyped
  <2>3. CASE phase' = [phase EXCEPT ![p] = "ended"] /\ exit_code' = [exit_code EXCEPT ![p] = 4]
    <3>1. phase' \in [Processes -> Phases] /\ phase'[p] = "ended"
      BY <1>2, <2>3 DEF Phases
    <3>2. exit_code' \in [Processes -> Codes] /\ exit_code'[p] # None
      BY <1>2, <2>3, PublishAssumption DEF Codes
    <3>3. Engaged(p)'
      BY <1>2, <2>1, <3>1 DEF Engaged
    <3>4. QED
      BY <1>2, <2>1, <2>3, <3>1, <3>2, <3>3, OtherTyped
  <2>4. QED
    BY <1>3, <2>2, <2>3 DEF Start
<1>4. ASSUME NEW p \in Processes, ReadCbl(p)
      PROVE  Typed'
  <2>1. /\ UNCHANGED <<directory, files, step, target, suffix, handle, written, abandoned,
                       phase, exit_code, wrote>>
        /\ unread' = [unread EXCEPT ![p] = Tail(@)] /\ unread[p] # <<>>
        /\ step[p] = "idle" /\ phase[p] = "running"
        /\ games' = [games EXCEPT ![p] = Head(unread[p])] \/ UNCHANGED games
    BY <1>4 DEF ReadCbl, Idle, publishVars
  <2>2. Head(unread[p]) \in Seq(Targets) /\ Tail(unread[p]) \in Seq(Seq(Targets))
    BY <1>2, <2>1, HeadTailType
  <2>3. unread' \in [Processes -> Seq(Seq(Targets))] /\ games' \in [Processes -> Seq(Targets)]
    BY <1>2, <2>1, <2>2
  <2>4. \A q \in Processes \ {p} : games'[q] = games[q]
    BY <1>2, <2>1
  <2>5. Engaged(p)'
    BY <2>1 DEF Engaged
  <2>6. QED
    BY <1>2, <2>1, <2>3, <2>4, <2>5, OtherTyped
<1>5. ASSUME NEW p \in Processes, ReadOxq(p)
      PROVE  Typed'
  <2>1. CblTarget \in Targets
    BY <1>5, BatchAssumption DEF ReadOxq
  <2>2. /\ UNCHANGED <<directory, files, step, target, suffix, handle, written, abandoned,
                       phase, exit_code, wrote>>
        /\ unread' = [unread EXCEPT ![p] = Tail(@)] /\ unread[p] # <<>>
        /\ step[p] = "idle" /\ phase[p] = "running"
        /\ games' = [games EXCEPT ![p] = <<CblTarget>>] \/ UNCHANGED games
    BY <1>5 DEF ReadOxq, Idle, publishVars
  <2>3. <<CblTarget>> \in Seq(Targets) /\ Tail(unread[p]) \in Seq(Seq(Targets))
    BY <1>2, <2>1, <2>2, HeadTailType
  <2>4. unread' \in [Processes -> Seq(Seq(Targets))] /\ games' \in [Processes -> Seq(Targets)]
    BY <1>2, <2>2, <2>3
  <2>5. \A q \in Processes \ {p} : games'[q] = games[q]
    BY <1>2, <2>2
  <2>6. Engaged(p)'
    BY <2>2 DEF Engaged
  <2>7. QED
    BY <1>2, <2>2, <2>4, <2>5, <2>6, OtherTyped
<1>6. ASSUME NEW p \in Processes, Publish(p)
      PROVE  Typed'
  <2>1. /\ UNCHANGED <<directory, files, suffix, handle, written, abandoned,
                       phase, unread, games, exit_code, wrote>>
        /\ target' = [target EXCEPT ![p] = Head(games[p])]
        /\ step' = [step EXCEPT ![p] = "inspect"]
        /\ phase[p] = "running" /\ games[p] # <<>>
    BY <1>6 DEF Publish, Begin, Idle, batchVars
  <2>2. Head(games[p]) \in Targets
    BY <1>2, <2>1, HeadTailType
  <2>3. /\ target' \in [Processes -> Targets \cup {None}]
        /\ step' \in [Processes -> Steps]
        /\ target'[p] = Head(games[p]) /\ step'[p] = "inspect"
    BY <1>2, <2>1, <2>2 DEF Steps
  <2>4. Engaged(p)'
    BY <2>1, <2>3 DEF Engaged
  <2>5. QED
    BY <1>2, <2>1, <2>3, <2>4, OtherTyped
<1>7. ASSUME NEW p \in Processes, EncodeFails(p)
      PROVE  Typed'
  <2>1. /\ UNCHANGED <<directory, files, step, target, suffix, handle, written, abandoned,
                       phase, unread, exit_code, wrote>>
        /\ games' = [games EXCEPT ![p] = Tail(@)] /\ games[p] # <<>>
        /\ step[p] = "idle" /\ phase[p] = "running"
    BY <1>7 DEF EncodeFails, Idle, publishVars
  <2>2. Tail(games[p]) \in Seq(Targets)
    BY <1>2, <2>1, HeadTailType
  <2>3. games' \in [Processes -> Seq(Targets)]
    BY <1>2, <2>1, <2>2
  <2>4. Engaged(p)'
    BY <2>1 DEF Engaged
  <2>5. QED
    BY <1>2, <2>1, <2>3, <2>4, OtherTyped
<1>8. ASSUME NEW p \in Processes,
             UNCHANGED <<directory, files, step, target, suffix, handle, written, abandoned,
                         unread, games, wrote>>,
             step[p] = "idle",
             phase' = [phase EXCEPT ![p] = "ended"],
             NEW code \in {0, 3, 4, 6, 7}, exit_code' = [exit_code EXCEPT ![p] = code]
      PROVE  Typed'
  <2>1. phase' \in [Processes -> Phases] /\ phase'[p] = "ended"
    BY <1>2, <1>8 DEF Phases
  <2>2. exit_code' \in [Processes -> Codes] /\ exit_code'[p] # None
    BY <1>2, <1>8, PublishAssumption DEF Codes
  <2>3. Engaged(p)'
    BY <1>8, <2>1 DEF Engaged
  <2>4. QED
    BY <1>2, <1>8, <2>1, <2>2, <2>3, OtherTyped
<1>9. ASSUME NEW p \in Processes, Reject(p)
      PROVE  Typed'
  BY <1>8, <1>9 DEF Reject, Idle, publishVars
<1>10. ASSUME NEW p \in Processes, CountResult(p)
       PROVE  Typed'
  <2>1. /\ UNCHANGED <<directory, files, target, suffix, handle, written, abandoned,
                       phase, unread, exit_code>>
        /\ step' = [step EXCEPT ![p] = "idle"]
        /\ games' = [games EXCEPT ![p] = Tail(@)]
        /\ step[p] # "idle" /\ phase[p] = "running"
        /\ wrote' = [wrote EXCEPT ![p] = @ \cup {target[p]}] \/ UNCHANGED wrote
    BY <1>10 DEF CountResult, Return, Results
  <2>2. games[p] # <<>> /\ target[p] \in Targets
    BY <1>2, <2>1, EngagedTarget DEF Engaged
  <2>3. Tail(games[p]) \in Seq(Targets)
    BY <1>2, <2>2, HeadTailType
  <2>4. games' \in [Processes -> Seq(Targets)]
    BY <1>2, <2>1, <2>3
  <2>5. wrote' \in [Processes -> SUBSET Targets]
    <3>1. wrote \in [Processes -> SUBSET Targets] /\ {target[p]} \subseteq Targets
      BY <1>2, <2>2
    <3>2. wrote[p] \cup {target[p]} \in SUBSET Targets
      BY <3>1
    <3>3. CASE wrote' = [wrote EXCEPT ![p] = @ \cup {target[p]}]
      BY <3>1, <3>2, <3>3
    <3>4. QED
      BY <2>1, <3>1, <3>3
  <2>6. step' \in [Processes -> Steps] /\ step'[p] = "idle"
    BY <1>2, <2>1 DEF Steps
  <2>7. Engaged(p)'
    BY <2>6 DEF Engaged
  <2>8. QED
    BY <1>2, <2>1, <2>4, <2>5, <2>6, <2>7, OtherTyped
<1>11. ASSUME NEW p \in Processes, Finish(p)
       PROVE  Typed'
  BY <1>8, <1>11, ExitCodes DEF Finish, Idle, publishVars
<1>12. ASSUME NEW p \in Processes, Kill(p)
       PROVE  Typed'
  <2>1. /\ phase' \in [Processes -> Phases] /\ phase'[p] = "killed"
        /\ handle' \in [Processes -> {None} \cup DOMAIN files]
    BY <1>2, <1>12 DEF Kill, Phases
  <2>2. Engaged(p)' /\ exit_code'[p] = None
    BY <1>2, <1>12, <2>1 DEF Kill, Engaged
  <2>3. QED
    BY <1>2, <1>12, <2>1, <2>2, OtherTyped DEF Kill
<1>13. QED
  BY <1>1, <1>3, <1>4, <1>5, <1>6, <1>7, <1>9, <1>10, <1>11, <1>12, CallTyped
     DEF BatchNext, Work

(* The variables of the batch keep their types, whatever fails: there is no *)
(* temporary name beyond the last, and an exit code exactly when a process  *)
(* has ended.                                                               *)
THEOREM BatchTypes == BatchSpec => []BatchTypeOK
<1>1. Typed => BatchTypeOK
  BY DEF Typed
<1>2. BatchSpec => []Typed
  BY InitTyped, BatchTyped, PTL DEF BatchSpec
<1>3. QED
  BY <1>1, <1>2, PTL
-----------------------------------------------------------------------------
(* Temporary files *)

(* A process is at work on a temporary file, or was killed there. *)
Busy(p, t, k) ==
  /\ target[p] = t /\ suffix[p] = k
  /\ step[p] \in {"write", "rename"}
  /\ phase[p] \in {"running", "killed"}

(* The temporary files of the other processes stay; a temporary file of p   *)
(* must be abandoned or still be its own, and there is no other new one.    *)
LEMMA TemporariesKept ==
  ASSUME OnlyKilledLeaveTemporaries, NEW p \in Processes,
         abandoned \subseteq abandoned',
         \A q \in Processes \ {p} : /\ step'[q] = step[q] /\ target'[q] = target[q]
                                    /\ suffix'[q] = suffix[q] /\ phase'[q] = phase[q],
         \A t \in Targets, k \in 0 .. MaxSuffix : Exists(<<t, k>>)' =>
           \/ <<t, k>> \in abandoned'
           \/ Busy(p, t, k)'
           \/ Exists(<<t, k>>) /\ ~Busy(p, t, k)
  PROVE  OnlyKilledLeaveTemporaries'
<1> SUFFICES ASSUME NEW t \in Targets, NEW k \in 0 .. MaxSuffix, Exists(<<t, k>>)',
                    <<t, k>> \notin abandoned'
             PROVE  \E q \in Processes : Busy(q, t, k)'
  BY DEF OnlyKilledLeaveTemporaries, Busy
<1>1. CASE Busy(p, t, k)'
  BY <1>1
<1>2. CASE Exists(<<t, k>>) /\ ~Busy(p, t, k)
  <2>1. PICK q \in Processes : Busy(q, t, k)
    BY <1>2 DEF OnlyKilledLeaveTemporaries, Busy
  <2>2. q # p
    BY <1>2, <2>1
  <2>3. Busy(q, t, k)'
    BY <2>1, <2>2 DEF Busy
  <2>4. QED
    BY <2>3
<1>3. QED
  BY <1>1, <1>2

(* Nothing is done in the directory, and p is at work where it was. *)
LEMMA TemporariesUntouched ==
  ASSUME OnlyKilledLeaveTemporaries, NEW p \in Processes,
         UNCHANGED <<directory, abandoned>>,
         \A q \in Processes \ {p} : /\ step'[q] = step[q] /\ target'[q] = target[q]
                                    /\ suffix'[q] = suffix[q] /\ phase'[q] = phase[q],
         \A t \in Targets, k \in 0 .. MaxSuffix : Busy(p, t, k) => Busy(p, t, k)'
  PROVE  OnlyKilledLeaveTemporaries'
BY TemporariesKept DEF Exists

(* After a failure p tries to remove its temporary file. *)
LEMMA TemporariesCleaned ==
  ASSUME Typed, OnlyKilledLeaveTemporaries, NEW p \in Processes, step[p] # "idle",
         CleanUp(Temporary(p)), UNCHANGED <<target, suffix, phase>>,
         step' = [step EXCEPT ![p] = "failed"]
  PROVE  OnlyKilledLeaveTemporaries'
<1>1. Temporary(p) \in Names
  BY EngagedTarget
<1>2. directory \in [Names -> {None} \cup DOMAIN files] /\ step \in [Processes -> Steps]
  BY TypedFacts
<1>3. ASSUME NEW t \in Targets, NEW k \in 0 .. MaxSuffix, Exists(<<t, k>>)'
      PROVE  <<t, k>> \in abandoned' \/ (Exists(<<t, k>>) /\ ~Busy(p, t, k))
  <2>1. <<t, k>> \in Names
    BY DEF Names
  <2>2. CASE <<t, k>> = Temporary(p)
    BY <1>1, <1>2, <1>3, <2>2 DEF CleanUp, Exists
  <2>3. CASE <<t, k>> # Temporary(p)
    BY <1>1, <1>2, <1>3, <2>1, <2>3 DEF CleanUp, Exists, Busy, Temporary
  <2>4. QED
    BY <2>2, <2>3
<1>4. abandoned \subseteq abandoned'
  BY DEF CleanUp
<1>5. \A q \in Processes \ {p} : step'[q] = step[q]
  BY <1>2
<1>6. QED
  BY <1>3, <1>4, <1>5, TemporariesKept

LEMMA CallTemporaries ==
  ASSUME Typed, OnlyKilledLeaveTemporaries, NEW p \in Processes, Call(p)
  PROVE  OnlyKilledLeaveTemporaries'
<1>1. phase[p] = "running" /\ UNCHANGED phase
  BY DEF Call, batchVars
<1>2. /\ directory \in [Names -> {None} \cup DOMAIN files]
      /\ step \in [Processes -> Steps] /\ suffix \in [Processes -> 0 .. MaxSuffix]
  BY TypedFacts
<1>3. step[p] # "idle" => Temporary(p) \in Names /\ Published(target[p]) \in Names
  BY EngagedTarget
<1>4. CASE Inspect(p)
  BY <1>1, <1>2, <1>4, TemporariesUntouched DEF Inspect, Busy
<1>5. CASE Probe(p)
  BY <1>1, <1>2, <1>5, TemporariesUntouched DEF Probe, Busy
<1>6. CASE Open(p)
  <2>1. step[p] = "open" /\ UNCHANGED <<target, suffix, abandoned>>
    BY <1>6 DEF Open
  <2>2. CASE step' = [step EXCEPT ![p] = "failed"] /\ UNCHANGED directory
    BY <1>1, <1>2, <2>1, <2>2, TemporariesUntouched DEF Busy
  <2>3. CASE step' = [step EXCEPT ![p] = "write"]
    <3>1. \A name \in Names \ {Temporary(p)} : directory'[name] = directory[name]
      BY <1>2, <1>6, <2>3 DEF Open
    <3>2. ASSUME NEW t \in Targets, NEW k \in 0 .. MaxSuffix, Exists(<<t, k>>)'
          PROVE  Busy(p, t, k)' \/ (Exists(<<t, k>>) /\ ~Busy(p, t, k))
      <4>1. CASE <<t, k>> = Temporary(p)
        BY <1>1, <1>2, <2>1, <2>3, <4>1 DEF Temporary, Busy
      <4>2. CASE <<t, k>> # Temporary(p)
        BY <2>1, <3>1, <3>2, <4>2 DEF Names, Exists, Busy
      <4>3. QED
        BY <4>1, <4>2
    <3>3. \A q \in Processes \ {p} : step'[q] = step[q]
      BY <1>2, <2>3
    <3>4. QED
      BY <1>1, <2>1, <3>2, <3>3, TemporariesKept
  <2>4. QED
    BY <1>6, <2>2, <2>3 DEF Open
<1>7. CASE Write(p)
  BY <1>1, <1>7, TemporariesUntouched DEF Write, Busy
<1>8. CASE WriteFails(p)
  BY <1>1, <1>8, TemporariesCleaned DEF WriteFails
<1>9. CASE Close(p)
  BY <1>1, <1>2, <1>9, TemporariesUntouched DEF Close, Busy
<1>10. CASE Rename(p)
  <2>1. step[p] = "rename" /\ UNCHANGED <<target, suffix, abandoned>>
    BY <1>10 DEF Rename
  <2>2. ASSUME NEW t \in Targets, NEW k \in 0 .. MaxSuffix, Exists(<<t, k>>)'
        PROVE  Exists(<<t, k>>) /\ ~Busy(p, t, k)
    <3>1. <<t, k>> \in Names /\ <<t, k>> # Published(target[p])
      BY PublishAssumption DEF Names, Published
    <3>2. directory'[Temporary(p)] = None
      BY <1>2, <1>3, <1>10, <2>1 DEF Rename
    <3>3. <<t, k>> # Temporary(p)
      BY <2>2, <3>2 DEF Exists
    <3>4. directory'[<<t, k>>] = directory[<<t, k>>]
      BY <1>2, <1>10, <3>1, <3>3 DEF Rename
    <3>5. QED
      BY <2>2, <3>3, <3>4 DEF Exists, Busy, Temporary
  <2>3. \A q \in Processes \ {p} : step'[q] = step[q]
    BY <1>2, <1>10 DEF Rename
  <2>4. QED
    BY <1>1, <2>1, <2>2, <2>3, TemporariesKept
<1>11. CASE RenameFails(p)
  BY <1>1, <1>11, TemporariesCleaned DEF RenameFails
<1>12. QED
  BY <1>4, <1>5, <1>6, <1>7, <1>8, <1>9, <1>10, <1>11 DEF Call, Advance

LEMMA BatchTemporaries ==
  ASSUME Typed, OnlyKilledLeaveTemporaries, [BatchNext]_allVars
  PROVE  OnlyKilledLeaveTemporaries'
<1>1. CASE UNCHANGED allVars
  BY <1>1 DEF OnlyKilledLeaveTemporaries, Exists, allVars, publishVars, batchVars
<1>2. /\ step \in [Processes -> Steps] /\ phase \in [Processes -> Phases]
      /\ target \in [Processes -> Targets \cup {None}]
  BY TypedFacts
<1>3. ASSUME NEW p \in Processes,
             UNCHANGED publishVars, step[p] = "idle", phase' = [phase EXCEPT ![p] = "ended"]
      PROVE  OnlyKilledLeaveTemporaries'
  BY <1>2, <1>3, TemporariesUntouched DEF publishVars, Busy
<1>4. ASSUME NEW p \in Processes, UNCHANGED publishVars, UNCHANGED phase
      PROVE  OnlyKilledLeaveTemporaries'
  BY <1>4, TemporariesUntouched DEF publishVars, Busy
<1>5. ASSUME NEW p \in Processes, Start(p)
      PROVE  OnlyKilledLeaveTemporaries'
  <2>1. step[p] = "idle"
    BY <1>5, TypedFacts DEF Start, Engaged
  <2>2. \A q \in Processes \ {p} : phase'[q] = phase[q]
    BY <1>2, <1>5 DEF Start
  <2>3. QED
    BY <1>5, <2>1, <2>2, TemporariesUntouched DEF Start, publishVars, Busy
<1>6. ASSUME NEW p \in Processes, ReadCbl(p) \/ ReadOxq(p) \/ EncodeFails(p)
      PROVE  OnlyKilledLeaveTemporaries'
  BY <1>4, <1>6 DEF ReadCbl, ReadOxq, EncodeFails
<1>7. ASSUME NEW p \in Processes, Publish(p)
      PROVE  OnlyKilledLeaveTemporaries'
  BY <1>2, <1>7, TemporariesUntouched DEF Publish, Begin, batchVars, Busy
<1>8. ASSUME NEW p \in Processes, Reject(p) \/ Finish(p)
      PROVE  OnlyKilledLeaveTemporaries'
  BY <1>3, <1>8 DEF Reject, Finish, Idle
<1>9. ASSUME NEW p \in Processes, CountResult(p)
      PROVE  OnlyKilledLeaveTemporaries'
  BY <1>2, <1>9, TemporariesUntouched DEF CountResult, Return, Results, Busy
<1>10. ASSUME NEW p \in Processes, Kill(p)
       PROVE  OnlyKilledLeaveTemporaries'
  BY <1>2, <1>10, TemporariesUntouched DEF Kill, Busy
<1>11. QED
  BY <1>1, <1>5, <1>6, <1>7, <1>8, <1>9, <1>10, CallTemporaries DEF BatchNext, Work

(* A temporary file in the directory is the work of a process that is at it *)
(* or was killed there, or one that the system refused to remove.           *)
THEOREM TemporariesCleanedUp == BatchSpec => []OnlyKilledLeaveTemporaries
<1>1. BatchInit => OnlyKilledLeaveTemporaries
  BY PublishAssumption
     DEF BatchInit, PublishInit, OnlyKilledLeaveTemporaries, Exists, Names
<1>2. BatchSpec => [](Typed /\ OnlyKilledLeaveTemporaries)
  BY <1>1, InitTyped, BatchTyped, BatchTemporaries, PTL DEF BatchSpec
<1>3. QED
  BY <1>2, PTL
-----------------------------------------------------------------------------
(* Exit codes *)

Counts == [succeeded : Nat, skipped : Nat, failed : Nat, input_failures : Nat,
           output_failures : Nat, rejected : BOOLEAN]

(* What is written, is in hand or is still to be read is what was asked for. *)
Covered(p) ==
  IF Direction[p] = "to_cbl"
  THEN unread[p] # <<>> \/ games[p] = <<CblTarget>> \/ wrote[p] = {CblTarget}
  ELSE wrote[p] \cup Range(games[p]) \cup TargetsOf(unread[p]) = TargetsOf(Inputs[p])

(* The counters of a process agree with what it has written and has left.   *)
Balanced(p) ==
  /\ summary[p].succeeded # 0 <=> wrote[p] # {}
  /\ phase[p] = "waiting" => wrote[p] = {}
  /\ Direction[p] = "to_cbl" =>
       /\ unread[p] # <<>> \/ games[p] # <<>> => wrote[p] = {}
       /\ games[p] # <<>> => games[p] = <<CblTarget>> /\ unread[p] = <<>>
  /\ phase[p] \in {"waiting", "running"} =>
       /\ summary[p].failed # 0 <=> \/ summary[p].rejected
                                    \/ summary[p].input_failures # 0
                                    \/ summary[p].output_failures # 0
       /\ summary[p].failed = 0 /\ summary[p].skipped = 0 => Covered(p)

Honest(p) ==
  /\ exit_code[p] = 0 => wrote[p] = RequestedTargets(p)
  /\ exit_code[p] = 7 => wrote[p] # {}
  /\ exit_code[p] \in {3, 4, 6} => wrote[p] = {}

Ledger ==
  /\ summary \in [Processes -> Counts]
  /\ decoded \in [Processes -> Nat]
  /\ \A p \in Processes : Balanced(p) /\ Honest(p)

LEMMA HeadAndTail ==
  ASSUME NEW S, NEW seq \in Seq(S), seq # <<>>
  PROVE  Range(seq) = {Head(seq)} \cup Range(Tail(seq))
<1>1. Len(seq) \in Nat \ {0} /\ DOMAIN seq = 1 .. Len(seq)
  OBVIOUS
<1>2. DOMAIN Tail(seq) = 1 .. Len(seq) - 1
  BY <1>1
<1>3. Head(seq) = seq[1] /\ \A i \in 1 .. Len(seq) - 1 : Tail(seq)[i] = seq[i + 1]
  BY <1>1
<1>4. ASSUME NEW x \in Range(seq)
      PROVE  x \in {Head(seq)} \cup Range(Tail(seq))
  <2>1. PICK i \in 1 .. Len(seq) : x = seq[i]
    BY <1>1, <1>4 DEF Range
  <2>2. CASE i = 1
    BY <1>3, <2>1, <2>2
  <2>3. CASE i # 1
    <3>1. i - 1 \in 1 .. Len(seq) - 1 /\ Tail(seq)[i - 1] = seq[i]
      BY <1>1, <1>3, <2>1, <2>3
    <3>2. QED
      BY <1>2, <2>1, <3>1 DEF Range
  <2>4. QED
    BY <2>2, <2>3
<1>5. ASSUME NEW x \in {Head(seq)} \cup Range(Tail(seq))
      PROVE  x \in Range(seq)
  <2>1. CASE x = Head(seq)
    BY <1>1, <1>3, <2>1 DEF Range
  <2>2. CASE x \in Range(Tail(seq))
    <3>1. PICK i \in 1 .. Len(seq) - 1 : x = Tail(seq)[i]
      BY <1>2, <2>2 DEF Range
    <3>2. i + 1 \in 1 .. Len(seq) /\ x = seq[i + 1]
      BY <1>1, <1>3, <3>1
    <3>3. QED
      BY <1>1, <3>2 DEF Range
  <2>3. QED
    BY <1>5, <2>1, <2>2
<1>6. QED
  BY <1>4, <1>5

LEMMA TargetsOfTail ==
  ASSUME NEW S, NEW inputs \in Seq(S), inputs # <<>>
  PROVE  TargetsOf(inputs) = Range(Head(inputs)) \cup TargetsOf(Tail(inputs))
<1>1. \A seq : TargetsOf(seq) = UNION {Range(input) : input \in Range(seq)}
  BY DEF TargetsOf, Range
<1>2. Range(inputs) = {Head(inputs)} \cup Range(Tail(inputs))
  BY HeadAndTail
<1>3. QED
  BY <1>1, <1>2

LEMMA NothingLeft == Range(<<>>) = {} /\ TargetsOf(<<>>) = {}
BY DEF Range, TargetsOf

(* What Counted does to the counters. *)
LEMMA CountedFacts ==
  ASSUME summary \in [Processes -> Counts], NEW p \in Processes, NEW counters,
         counters \subseteq {"succeeded", "skipped", "failed", "input_failures",
                             "output_failures"},
         Counted(p, counters)
  PROVE  /\ summary' \in [Processes -> Counts]
         /\ \A q \in Processes \ {p} : summary'[q] = summary[q]
         /\ summary'[p].rejected = summary[p].rejected
         /\ \A field \in counters : summary'[p][field] = summary[p][field] + 1
         /\ \A field \in {"succeeded", "skipped", "failed", "input_failures",
                          "output_failures"} \ counters : summary'[p][field] = summary[p][field]
<1> DEFINE old == summary[p]
           new == [field \in DOMAIN old |-> IF field \in counters THEN old[field] + 1
                                            ELSE old[field]]
           numbers == {"succeeded", "skipped", "failed", "input_failures", "output_failures"}
<1>1. old \in Counts
  OBVIOUS
<1>2. DOMAIN old = numbers \cup {"rejected"} /\ old.rejected \in BOOLEAN
      /\ \A field \in numbers : old[field] \in Nat
  BY <1>1 DEF Counts
<1>3. /\ DOMAIN new = numbers \cup {"rejected"}
      /\ new.rejected = old.rejected
      /\ \A field \in counters : new[field] = old[field] + 1
      /\ \A field \in numbers \ counters : new[field] = old[field]
  BY <1>2
<1>4. new = [succeeded |-> new.succeeded, skipped |-> new.skipped, failed |-> new.failed,
             input_failures |-> new.input_failures,
             output_failures |-> new.output_failures, rejected |-> new.rejected]
  BY <1>2
<1>5. /\ new.succeeded \in Nat /\ new.skipped \in Nat /\ new.failed \in Nat
      /\ new.input_failures \in Nat /\ new.output_failures \in Nat /\ new.rejected \in BOOLEAN
  BY <1>2, <1>3
<1>6. new \in Counts
  BY <1>4, <1>5 DEF Counts
<1>7. summary' = [summary EXCEPT ![p] = new]
  BY DEF Counted
<1>8. QED
  BY <1>3, <1>6, <1>7

LEMMA InitLedger == BatchInit => Ledger
<1> SUFFICES ASSUME BatchInit
             PROVE  Ledger
  OBVIOUS
<1>1. summary \in [Processes -> Counts] /\ decoded \in [Processes -> Nat]
  BY DEF BatchInit, Counts
<1>2. ASSUME NEW p \in Processes
      PROVE  Balanced(p) /\ Honest(p)
  <2>1. /\ games[p] = <<>> /\ unread[p] = Inputs[p] /\ wrote[p] = {} /\ exit_code[p] = None
        /\ summary[p].succeeded = 0 /\ summary[p].failed = 0 /\ ~summary[p].rejected
        /\ summary[p].input_failures = 0 /\ summary[p].output_failures = 0
    BY DEF BatchInit
  <2>2. Inputs[p] # <<>>
    BY BatchAssumption
  <2>3. Covered(p)
    BY <2>1, <2>2, NothingLeft DEF Covered
  <2>4. None \notin {0, 3, 4, 6, 7}
    BY PublishAssumption
  <2>5. QED
    BY <2>1, <2>3, <2>4 DEF Balanced, Honest
<1>3. QED
  BY <1>1, <1>2 DEF Ledger

(* A step of p leaves the ledgers of the others alone. *)
LEMMA LedgerOfOne ==
  ASSUME Ledger, NEW p \in Processes,
         summary' \in [Processes -> Counts], decoded' \in [Processes -> Nat],
         \A q \in Processes \ {p} :
           /\ summary'[q] = summary[q] /\ phase'[q] = phase[q] /\ exit_code'[q] = exit_code[q]
           /\ unread'[q] = unread[q] /\ games'[q] = games[q] /\ wrote'[q] = wrote[q],
         Balanced(p)', Honest(p)'
  PROVE  Ledger'
<1>1. ASSUME NEW q \in Processes \ {p}
      PROVE  Balanced(q)' /\ Honest(q)'
  <2>1. Balanced(q) /\ Honest(q)
    BY DEF Ledger
  <2>2. Covered(q)' <=> Covered(q)
    BY DEF Covered, TargetsOf
  <2>3. Balanced(q)'
    BY <2>1, <2>2 DEF Balanced
  <2>4. Honest(q)'
    BY <2>1 DEF Honest, RequestedTargets, TargetsOf
  <2>5. QED
    BY <2>3, <2>4
<1>2. QED
  BY <1>1 DEF Ledger

(* Typed without what is known of write_atomic. *)
LEMMA LedgerTypes ==
  ASSUME Typed, Ledger, NEW p \in Processes
  PROVE  /\ phase \in [Processes -> Phases] /\ exit_code \in [Processes -> Codes]
         /\ unread \in [Processes -> Seq(Seq(Targets))]
         /\ games \in [Processes -> Seq(Targets)]
         /\ wrote \in [Processes -> SUBSET Targets]
         /\ summary \in [Processes -> Counts] /\ decoded \in [Processes -> Nat]
         /\ summary[p].succeeded \in Nat /\ summary[p].skipped \in Nat
         /\ summary[p].failed \in Nat /\ summary[p].input_failures \in Nat
         /\ summary[p].output_failures \in Nat /\ summary[p].rejected \in BOOLEAN
         /\ Balanced(p) /\ Honest(p)
         /\ phase[p] = "ended" <=> exit_code[p] # None
<1>1. summary \in [Processes -> Counts] /\ decoded \in [Processes -> Nat]
      /\ Balanced(p) /\ Honest(p)
  BY DEF Ledger
<1>2. summary[p] \in Counts
  BY <1>1
<1>3. /\ summary[p].succeeded \in Nat /\ summary[p].skipped \in Nat
      /\ summary[p].failed \in Nat /\ summary[p].input_failures \in Nat
      /\ summary[p].output_failures \in Nat /\ summary[p].rejected \in BOOLEAN
  BY <1>2 DEF Counts
<1>4. QED
  BY <1>1, <1>3, TypedFacts

(* While it runs a process has no exit code. *)
LEMMA NoCodeYet ==
  ASSUME NEW p \in Processes, exit_code'[p] = None
  PROVE  Honest(p)'
BY PublishAssumption DEF Honest

(* An input or an output fails and nothing else happens. *)
LEMMA FailureCounted ==
  ASSUME Typed, Ledger, NEW p \in Processes, phase[p] = "running",
         NEW field \in {"input_failures", "output_failures"},
         Counted(p, {"failed", field}), NEW inputs, NEW targets,
         unread' = [unread EXCEPT ![p] = inputs], games' = [games EXCEPT ![p] = targets],
         Direction[p] = "to_cbl" =>
           /\ inputs # <<>> \/ targets # <<>> => wrote[p] = {}
           /\ targets # <<>> => targets = <<CblTarget>> /\ inputs = <<>>,
         decoded' \in [Processes -> Nat],
         UNCHANGED <<phase, exit_code, wrote>>
  PROVE  Ledger'
<1>1. /\ summary' \in [Processes -> Counts]
      /\ \A q \in Processes \ {p} : summary'[q] = summary[q]
      /\ summary'[p].failed = summary[p].failed + 1
      /\ summary'[p][field] = summary[p][field] + 1
      /\ summary'[p].succeeded = summary[p].succeeded
  <2>1. summary \in [Processes -> Counts]
    BY DEF Ledger
  <2>2. {"failed", field} \subseteq {"succeeded", "skipped", "failed", "input_failures",
                                    "output_failures"}
    OBVIOUS
  <2>3. "succeeded" \notin {"failed", field}
    OBVIOUS
  <2>4. QED
    BY <2>1, <2>2, <2>3, CountedFacts
<1>2. unread'[p] = inputs /\ games'[p] = targets
  BY LedgerTypes
<1>3. exit_code'[p] = None
  BY LedgerTypes
<1>4. Balanced(p)'
  <2>1. summary'[p].failed # 0 /\ summary'[p][field] # 0
    BY <1>1, LedgerTypes
  <2>2. summary'[p].input_failures # 0 \/ summary'[p].output_failures # 0
    BY <2>1
  <2>3. QED
    BY <1>1, <1>2, <2>1, <2>2, LedgerTypes DEF Balanced
<1>5. \A q \in Processes \ {p} :
        /\ summary'[q] = summary[q] /\ phase'[q] = phase[q] /\ exit_code'[q] = exit_code[q]
        /\ unread'[q] = unread[q] /\ games'[q] = games[q] /\ wrote'[q] = wrote[q]
  BY <1>1, LedgerTypes
<1>6. Honest(p)'
  BY <1>3, NoCodeYet
<1>7. QED
  BY <1>1, <1>4, <1>5, <1>6, LedgerOfOne

LEMMA LedgerUntouched ==
  ASSUME Ledger, UNCHANGED batchVars
  PROVE  Ledger'
<1>1. UNCHANGED <<phase, unread, games, decoded, summary, exit_code, wrote>>
  BY DEF batchVars
<1>2. ASSUME NEW p \in Processes
      PROVE  Balanced(p)' /\ Honest(p)'
  <2>1. Covered(p)' <=> Covered(p)
    BY <1>1 DEF Covered, TargetsOf
  <2>2. QED
    BY <1>1, <2>1 DEF Ledger, Balanced, Honest, RequestedTargets, TargetsOf
<1>3. QED
  BY <1>1, <1>2 DEF Ledger

LEMMA StartLedger ==
  ASSUME Typed, Ledger, NEW p \in Processes, Start(p)
  PROVE  Ledger'
<1>1. /\ phase[p] = "waiting" /\ wrote[p] = {} /\ exit_code[p] = None
      /\ UNCHANGED <<unread, games, decoded, wrote>> /\ Balanced(p)
  BY LedgerTypes, PublishAssumption DEF Start, Balanced
<1>2. Covered(p)' <=> Covered(p)
  <2>1. UNCHANGED <<unread, games, wrote>>
    BY <1>1
  <2>2. QED
    BY <2>1 DEF Covered, TargetsOf
<1>3. CASE phase' = [phase EXCEPT ![p] = "running"] /\ UNCHANGED <<summary, exit_code>>
  <2>1. phase'[p] = "running" /\ \A q \in Processes \ {p} : phase'[q] = phase[q]
    BY <1>3, LedgerTypes
  <2>2. Balanced(p)'
    BY <1>1, <1>2, <1>3, <2>1 DEF Balanced
  <2>3. Honest(p)'
    BY <1>1, <1>3, NoCodeYet
  <2>4. QED
    BY <1>1, <1>3, <2>1, <2>2, <2>3, LedgerOfOne, LedgerTypes
<1>4. CASE /\ phase' = [phase EXCEPT ![p] = "ended"]
           /\ exit_code' = [exit_code EXCEPT ![p] = 4]
           /\ Counted(p, {"failed"})
  <2>1. /\ phase'[p] = "ended" /\ exit_code'[p] = 4
        /\ \A q \in Processes \ {p} : phase'[q] = phase[q] /\ exit_code'[q] = exit_code[q]
    BY <1>4, LedgerTypes
  <2>2. /\ summary' \in [Processes -> Counts]
        /\ \A q \in Processes \ {p} : summary'[q] = summary[q]
        /\ summary'[p].succeeded = summary[p].succeeded
    BY <1>4, CountedFacts DEF Ledger
  <2>3. Balanced(p)'
    BY <1>1, <2>1, <2>2 DEF Balanced
  <2>4. Honest(p)'
    BY <1>1, <2>1 DEF Honest
  <2>5. QED
    BY <1>1, <2>1, <2>2, <2>3, <2>4, LedgerOfOne, LedgerTypes
<1>5. QED
  BY <1>3, <1>4 DEF Start

LEMMA ReadCblLedger ==
  ASSUME Typed, Ledger, NEW p \in Processes, ReadCbl(p)
  PROVE  Ledger'
<1>1. /\ phase[p] = "running" /\ Direction[p] = "to_oxq" /\ exit_code[p] = None
      /\ games[p] = <<>> /\ unread[p] # <<>> /\ Balanced(p)
      /\ unread' = [unread EXCEPT ![p] = Tail(@)]
      /\ UNCHANGED <<phase, decoded, exit_code, wrote>>
  BY LedgerTypes DEF ReadCbl, Idle
<1>2. /\ unread'[p] = Tail(unread[p])
      /\ \A q \in Processes \ {p} : unread'[q] = unread[q]
  BY <1>1, LedgerTypes
<1>3. Honest(p)'
  BY <1>1, NoCodeYet
<1>4. CASE games' = [games EXCEPT ![p] = Head(unread[p])] /\ UNCHANGED summary
  <2>1. /\ games'[p] = Head(unread[p])
        /\ \A q \in Processes \ {p} : games'[q] = games[q]
    BY <1>4, LedgerTypes
  <2>2. unread[p] \in Seq(Seq(Targets))
    BY LedgerTypes
  <2>3. TargetsOf(unread[p]) = Range(games'[p]) \cup TargetsOf(unread'[p])
    BY <1>1, <1>2, <2>1, <2>2, TargetsOfTail
  <2>4. Covered(p) => Covered(p)'
    BY <1>1, <2>3, NothingLeft DEF Covered
  <2>5. Balanced(p)'
    BY <1>1, <1>4, <2>4 DEF Balanced
  <2>6. QED
    BY <1>1, <1>2, <1>3, <1>4, <2>1, <2>5, LedgerOfOne, LedgerTypes
<1>5. CASE Counted(p, {"failed", "input_failures"}) /\ UNCHANGED games
  <2>1. games' = [games EXCEPT ![p] = games[p]]
    BY <1>5, LedgerTypes
  <2>2. decoded' \in [Processes -> Nat]
    BY <1>1, LedgerTypes
  <2>3. QED
    BY <1>1, <1>5, <2>1, <2>2, FailureCounted
<1>6. CASE /\ summary' = [summary EXCEPT ![p].rejected = TRUE, ![p].failed = @ + 1]
           /\ UNCHANGED games
  <2> DEFINE new == [summary[p] EXCEPT !.rejected = TRUE, !.failed = @ + 1]
  <2>1. summary[p] \in Counts
    BY LedgerTypes
  <2>2. /\ new \in Counts /\ new.rejected /\ new.failed = summary[p].failed + 1
        /\ new.succeeded = summary[p].succeeded
    <3>1. summary[p].failed + 1 \in Nat
      BY LedgerTypes
    <3>2. [summary[p] EXCEPT !.rejected = TRUE] \in Counts
      BY <2>1 DEF Counts
    <3>3. QED
      BY <2>1, <3>1, <3>2 DEF Counts
  <2>3. summary' = [summary EXCEPT ![p] = new]
    BY <1>6, LedgerTypes
  <2>4. /\ summary' \in [Processes -> Counts] /\ summary'[p] = new
        /\ \A q \in Processes \ {p} : summary'[q] = summary[q]
    BY <2>2, <2>3, LedgerTypes
  <2>5. Balanced(p)'
    <3>1. summary'[p].failed # 0 /\ summary'[p].rejected
          /\ summary'[p].succeeded = summary[p].succeeded
      BY <2>2, <2>4, LedgerTypes
    <3>2. QED
      BY <1>1, <1>6, <3>1 DEF Balanced
  <2>6. QED
    BY <1>1, <1>2, <1>3, <1>6, <2>4, <2>5, LedgerOfOne, LedgerTypes
<1>7. QED
  BY <1>4, <1>5, <1>6 DEF ReadCbl

LEMMA ReadOxqLedger ==
  ASSUME Typed, Ledger, NEW p \in Processes, ReadOxq(p)
  PROVE  Ledger'
<1> DEFINE last == Tail(unread[p]) = <<>> /\ decoded'[p] > 0
           targets == IF last THEN <<CblTarget>> ELSE games[p]
<1>1. /\ phase[p] = "running" /\ Direction[p] = "to_cbl" /\ exit_code[p] = None
      /\ unread[p] # <<>> /\ Balanced(p)
      /\ unread' = [unread EXCEPT ![p] = Tail(@)]
      /\ UNCHANGED <<phase, exit_code, wrote>>
  BY LedgerTypes DEF ReadOxq, Idle
<1>2. wrote[p] = {} /\ games[p] = <<>>
  BY <1>1 DEF Balanced
<1>3. games' = [games EXCEPT ![p] = targets]
  BY LedgerTypes DEF ReadOxq
<1>4. targets # <<>> => targets = <<CblTarget>> /\ Tail(unread[p]) = <<>>
  BY <1>2
<1>5. CASE decoded' = [decoded EXCEPT ![p] = @ + 1] /\ UNCHANGED summary
  <2>1. decoded' \in [Processes -> Nat] /\ decoded'[p] > 0
    BY <1>5, LedgerTypes
  <2>2. /\ unread'[p] = Tail(unread[p]) /\ games'[p] = targets
        /\ \A q \in Processes \ {p} : unread'[q] = unread[q] /\ games'[q] = games[q]
    BY <1>1, <1>3, LedgerTypes
  <2>3. Covered(p)'
    BY <1>1, <2>1, <2>2 DEF Covered
  <2>4. Balanced(p)'
    BY <1>1, <1>2, <1>4, <1>5, <2>2, <2>3 DEF Balanced
  <2>5. Honest(p)'
    BY <1>1, NoCodeYet
  <2>6. QED
    BY <1>1, <1>5, <2>1, <2>2, <2>4, <2>5, LedgerOfOne, LedgerTypes
<1>6. CASE Counted(p, {"failed", "input_failures"}) /\ UNCHANGED decoded
  <2>1. decoded' \in [Processes -> Nat]
    BY <1>6, LedgerTypes
  <2>2. QED
    BY <1>1, <1>2, <1>3, <1>4, <1>6, <2>1, FailureCounted
<1>7. QED
  BY <1>5, <1>6 DEF ReadOxq

LEMMA EncodeFailsLedger ==
  ASSUME Typed, Ledger, NEW p \in Processes, EncodeFails(p)
  PROVE  Ledger'
<1>1. /\ phase[p] = "running" /\ games[p] # <<>> /\ Balanced(p)
      /\ Counted(p, {"failed", "output_failures"})
      /\ games' = [games EXCEPT ![p] = Tail(games[p])]
      /\ UNCHANGED <<phase, unread, decoded, exit_code, wrote>>
  BY LedgerTypes DEF EncodeFails, Idle
<1>2. unread' = [unread EXCEPT ![p] = unread[p]] /\ decoded' \in [Processes -> Nat]
  BY <1>1, LedgerTypes
<1>3. Direction[p] = "to_cbl" => Tail(games[p]) = <<>> /\ unread[p] = <<>>
  <2>1. Direction[p] = "to_cbl" => games[p] = <<CblTarget>> /\ unread[p] = <<>>
    BY <1>1 DEF Balanced
  <2>2. Tail(<<CblTarget>>) = <<>>
    OBVIOUS
  <2>3. QED
    BY <2>1, <2>2
<1>4. QED
  BY <1>1, <1>2, <1>3, FailureCounted

LEMMA CountResultLedger ==
  ASSUME Typed, Ledger, NEW p \in Processes, CountResult(p)
  PROVE  Ledger'
<1>1. /\ phase[p] = "running" /\ exit_code[p] = None /\ Balanced(p)
      /\ games' = [games EXCEPT ![p] = Tail(games[p])]
      /\ UNCHANGED <<phase, unread, decoded, exit_code>>
  BY LedgerTypes DEF CountResult
<1>2. games[p] # <<>> /\ target[p] = Head(games[p])
  <2>1. step[p] # "idle"
    BY DEF CountResult, Return, Results
  <2>2. QED
    BY <2>1, TypedFacts DEF Engaged
<1>3. /\ games'[p] = Tail(games[p]) /\ \A q \in Processes \ {p} : games'[q] = games[q]
  BY <1>1, LedgerTypes
<1>4. Direction[p] = "to_cbl" =>
        /\ games'[p] = <<>> /\ unread[p] = <<>> /\ target[p] = CblTarget /\ wrote[p] = {}
  <2>1. Direction[p] = "to_cbl" =>
          games[p] = <<CblTarget>> /\ unread[p] = <<>> /\ wrote[p] = {}
    BY <1>1, <1>2 DEF Balanced
  <2>2. Tail(<<CblTarget>>) = <<>> /\ Head(<<CblTarget>>) = CblTarget
    OBVIOUS
  <2>3. QED
    BY <1>2, <1>3, <2>1, <2>2
<1>5. Honest(p)'
  BY <1>1, NoCodeYet
<1>6. CASE Counted(p, {"succeeded"}) /\ wrote' = [wrote EXCEPT ![p] = @ \cup {target[p]}]
  <2>1. /\ wrote'[p] = wrote[p] \cup {target[p]}
        /\ \A q \in Processes \ {p} : wrote'[q] = wrote[q]
    BY <1>6, LedgerTypes
  <2>2. /\ summary' \in [Processes -> Counts]
        /\ \A q \in Processes \ {p} : summary'[q] = summary[q]
        /\ summary'[p].rejected = summary[p].rejected
        /\ summary'[p].succeeded = summary[p].succeeded + 1
        /\ summary'[p].failed = summary[p].failed
        /\ summary'[p].skipped = summary[p].skipped
        /\ summary'[p].input_failures = summary[p].input_failures
        /\ summary'[p].output_failures = summary[p].output_failures
    BY <1>6, CountedFacts DEF Ledger
  <2>3. summary'[p].succeeded # 0 /\ wrote'[p] # {}
    <3>1. summary[p].succeeded \in Nat
      BY LedgerTypes
    <3>2. summary'[p].succeeded # 0
      BY <2>2, <3>1
    <3>3. QED
      BY <2>1, <3>2
  <2>4. Covered(p) => Covered(p)'
    <3>1. CASE Direction[p] = "to_cbl"
      <4>1. wrote'[p] = {CblTarget}
        BY <1>4, <2>1, <3>1
      <4>2. QED
        BY <3>1, <4>1 DEF Covered
    <3>2. CASE Direction[p] # "to_cbl"
      <4>1. games[p] \in Seq(Targets)
        BY LedgerTypes
      <4>2. Range(games[p]) = {target[p]} \cup Range(games'[p])
        BY <1>2, <1>3, <4>1, HeadAndTail
      <4>3. unread'[p] = unread[p]
        BY <1>1
      <4>4. QED
        BY <2>1, <3>2, <4>2, <4>3 DEF Covered
    <3>3. QED
      BY <3>1, <3>2
  <2>5. Balanced(p)'
    BY <1>1, <1>4, <2>2, <2>3, <2>4 DEF Balanced
  <2>6. QED
    BY <1>1, <1>3, <1>5, <2>1, <2>2, <2>5, LedgerOfOne, LedgerTypes
<1>7. CASE Counted(p, {"skipped"}) /\ UNCHANGED wrote
  <2>1. /\ summary' \in [Processes -> Counts]
        /\ \A q \in Processes \ {p} : summary'[q] = summary[q]
        /\ summary'[p].rejected = summary[p].rejected
        /\ summary'[p].succeeded = summary[p].succeeded
        /\ summary'[p].failed = summary[p].failed
        /\ summary'[p].skipped = summary[p].skipped + 1
        /\ summary'[p].input_failures = summary[p].input_failures
        /\ summary'[p].output_failures = summary[p].output_failures
    BY <1>7, CountedFacts DEF Ledger
  <2>2. summary'[p].skipped # 0
    BY <2>1, LedgerTypes
  <2>3. Balanced(p)'
    BY <1>1, <1>4, <1>7, <2>1, <2>2 DEF Balanced
  <2>4. QED
    BY <1>1, <1>3, <1>5, <1>7, <2>1, <2>3, LedgerOfOne, LedgerTypes
<1>8. CASE Counted(p, {"failed", "output_failures"}) /\ UNCHANGED wrote
  <2>1. unread' = [unread EXCEPT ![p] = unread[p]] /\ decoded' \in [Processes -> Nat]
    BY <1>1, LedgerTypes
  <2>2. Direction[p] = "to_cbl" => Tail(games[p]) = <<>> /\ unread[p] = <<>>
    BY <1>3, <1>4
  <2>3. QED
    BY <1>1, <1>8, <2>1, <2>2, FailureCounted
<1>9. PICK result \in Results : /\ Counted(p, Counters(result))
                                /\ wrote' = IF result = "written"
                                            THEN [wrote EXCEPT ![p] = @ \cup {target[p]}]
                                            ELSE wrote
  BY DEF CountResult
<1>10. /\ Counters("written") = {"succeeded"} /\ Counters("exists") = {"skipped"}
       /\ Counters("failed") = {"failed", "output_failures"}
  BY DEF Counters
<1>11. QED
  BY <1>6, <1>7, <1>8, <1>9, <1>10 DEF Results

LEMMA RejectLedger ==
  ASSUME Typed, Ledger, NEW p \in Processes, Reject(p)
  PROVE  Ledger'
<1>1. /\ games[p] # <<>> /\ Direction[p] = "to_cbl" /\ Balanced(p)
      /\ Counted(p, {"failed", "output_failures"})
      /\ UNCHANGED <<unread, games, decoded, wrote>>
  BY LedgerTypes DEF Reject
<1>2. /\ phase'[p] = "ended" /\ exit_code'[p] = 6
      /\ \A q \in Processes \ {p} : phase'[q] = phase[q] /\ exit_code'[q] = exit_code[q]
  BY LedgerTypes DEF Reject
<1>3. wrote'[p] = {}
  BY <1>1 DEF Balanced
<1>4. /\ summary' \in [Processes -> Counts]
      /\ \A q \in Processes \ {p} : summary'[q] = summary[q]
      /\ summary'[p].succeeded = summary[p].succeeded
  BY <1>1, CountedFacts DEF Ledger
<1>5. Balanced(p)'
  BY <1>1, <1>2, <1>3, <1>4 DEF Balanced
<1>6. Honest(p)'
  BY <1>2, <1>3 DEF Honest
<1>7. QED
  BY <1>1, <1>2, <1>4, <1>5, <1>6, LedgerOfOne, LedgerTypes

LEMMA FinishLedger ==
  ASSUME Typed, Ledger, NEW p \in Processes, Finish(p)
  PROVE  Ledger'
<1> DEFINE counts == summary[p]
           code == summary_exit(counts)
<1>1. /\ phase[p] = "running" /\ unread[p] = <<>> /\ games[p] = <<>> /\ Balanced(p)
      /\ UNCHANGED <<unread, games, decoded, summary, wrote>>
  BY LedgerTypes DEF Finish, Idle
<1>2. /\ phase'[p] = "ended" /\ exit_code'[p] = code
      /\ \A q \in Processes \ {p} : phase'[q] = phase[q] /\ exit_code'[q] = exit_code[q]
  <2> HIDE DEF code
  <2>1. phase' = [phase EXCEPT ![p] = "ended"] /\ exit_code' = [exit_code EXCEPT ![p] = code]
    BY DEF Finish, code
  <2>2. QED
    BY <2>1, LedgerTypes
<1>3. Balanced(p)'
  BY <1>1, <1>2 DEF Balanced
<1>4. /\ counts.succeeded # 0 <=> wrote[p] # {}
      /\ counts.failed # 0 <=> \/ counts.rejected
                               \/ counts.input_failures # 0
                               \/ counts.output_failures # 0
      /\ counts.failed = 0 /\ counts.skipped = 0 => Covered(p)
  BY <1>1 DEF Balanced
<1>5. Covered(p) => wrote[p] = RequestedTargets(p)
  <2>1. Range(games[p]) = {} /\ TargetsOf(unread[p]) = {}
    BY <1>1, NothingLeft
  <2>2. games[p] # <<CblTarget>>
    BY <1>1
  <2>3. QED
    BY <1>1, <2>1, <2>2 DEF Covered, RequestedTargets
<1>6. code = 0 => counts.failed = 0 /\ counts.skipped = 0
  BY <1>4 DEF summary_exit
<1>7. code = 7 => counts.succeeded # 0
  BY DEF summary_exit
<1>8. code \in {3, 4, 6} => counts.succeeded = 0
  BY <1>4 DEF summary_exit
<1>9. Honest(p)'
  <2> HIDE DEF code, counts
  <2>1. wrote'[p] = wrote[p] /\ RequestedTargets(p)' = RequestedTargets(p)
    BY <1>1 DEF RequestedTargets, TargetsOf
  <2>2. QED
    BY <1>2, <1>4, <1>5, <1>6, <1>7, <1>8, <2>1 DEF Honest
<1>10. QED
  BY <1>1, <1>2, <1>3, <1>9, LedgerOfOne, LedgerTypes

LEMMA KillLedger ==
  ASSUME Typed, Ledger, NEW p \in Processes, Kill(p)
  PROVE  Ledger'
<1>1. /\ exit_code[p] = None /\ Balanced(p)
      /\ UNCHANGED <<unread, games, decoded, summary, exit_code, wrote>>
  BY LedgerTypes DEF Kill
<1>2. phase'[p] = "killed" /\ \A q \in Processes \ {p} : phase'[q] = phase[q]
  BY LedgerTypes DEF Kill
<1>3. Balanced(p)'
  BY <1>1, <1>2 DEF Balanced
<1>4. Honest(p)'
  BY <1>1, NoCodeYet
<1>5. QED
  BY <1>1, <1>2, <1>3, <1>4, LedgerOfOne, LedgerTypes

LEMMA BatchLedger ==
  ASSUME Typed, Ledger, [BatchNext]_allVars
  PROVE  Ledger'
<1>1. CASE UNCHANGED allVars
  BY <1>1, LedgerUntouched DEF allVars
<1>2. ASSUME NEW p \in Processes, Publish(p) \/ Call(p)
      PROVE  Ledger'
  BY <1>2, LedgerUntouched DEF Publish, Call
<1>3. QED
  BY <1>1, <1>2, StartLedger, ReadCblLedger, ReadOxqLedger, EncodeFailsLedger,
     CountResultLedger, RejectLedger, FinishLedger, KillLedger DEF BatchNext, Work

(* An exit code tells what was written: all, some or nothing of it, whatever *)
(* failed or was killed, and whatever other processes did meanwhile.         *)
THEOREM ExitCodesTrue == BatchSpec => []ExitCodeTruthful
<1>1. Ledger => ExitCodeTruthful
  BY DEF Ledger, Honest, ExitCodeTruthful
<1>2. BatchSpec => [](Typed /\ Ledger)
  BY InitTyped, InitLedger, BatchTyped, BatchLedger, PTL DEF BatchSpec
<1>3. QED
  BY <1>1, <1>2, PTL

-----------------------------------------------------------------------------
(* When no process starts while another one is running; what the killed     *)
(* ones have left in the directory may be met.                              *)

Alone ==
  \A p, q \in Processes : phase[p] = "running" /\ phase[q] = "running" => p = q

(* No file has two names. *)
Distinct ==
  \A name, other \in Names : Exists(name) /\ directory[name] = directory[other] => name = other

(* What the running process knows from step to step. *)
InCharge(p) ==
  phase[p] = "running" =>
    /\ step[p] \in {"probe", "open", "write", "rename"} => ~Exists(Published(target[p]))
    /\ step[p] = "open" => ~Exists(Temporary(p))
    /\ step[p] = "write" => /\ directory[Temporary(p)] = handle[p]
                            /\ files[handle[p]] = [i \in 1 .. written[p] |-> p]
    /\ step[p] = "rename" => /\ Exists(Temporary(p))
                             /\ files[directory[Temporary(p)]] = Output(p)
    /\ step[p] = "written" => /\ Exists(Published(target[p]))
                              /\ files[directory[Published(target[p])]] = Output(p)

Sound ==
  /\ Alone
  /\ Distinct
  /\ \A p \in Processes : InCharge(p)
  /\ PublishedComplete
  /\ WrittenRemains

(* A step leaves the published files as they are. *)
Untouched ==
  \A t \in Targets : Exists(Published(t)) =>
    /\ directory'[Published(t)] = directory[Published(t)]
    /\ files'[directory[Published(t)]] = files[directory[Published(t)]]

(* The files that a step publishes are whole. *)
NewComplete ==
  \A t \in Targets : directory'[Published(t)] # None /\ ~Exists(Published(t)) =>
    \E p \in Processes : files'[directory'[Published(t)]] = Output(p)

(* A system call of the running process, from what it does to the names.    *)
LEMMA SoundCall ==
  ASSUME Typed, Sound, NEW p \in Processes, phase[p] = "running",
         UNCHANGED <<phase, wrote>>,
         Untouched, NewComplete, Distinct', InCharge(p)'
  PROVE  Sound' /\ Untouched
<1>1. Alone'
  BY DEF Sound, Alone
<1>2. ASSUME NEW q \in Processes
      PROVE  InCharge(q)'
  <2>1. CASE q = p
    BY <2>1
  <2>2. CASE q # p
    BY <2>2 DEF Sound, Alone, InCharge
  <2>3. QED
    BY <2>1, <2>2
<1>3. PublishedComplete'
  <2> SUFFICES ASSUME NEW t \in Targets, directory'[Published(t)] # None
               PROVE  \E q \in Processes : files'[directory'[Published(t)]] = Output(q)
    BY DEF PublishedComplete, Exists, Output, Published
  <2>1. CASE Exists(Published(t))
    BY <2>1 DEF Untouched, Sound, PublishedComplete
  <2>2. CASE ~Exists(Published(t))
    BY <2>2 DEF NewComplete
  <2>3. QED
    BY <2>1, <2>2
<1>4. WrittenRemains'
  <2> SUFFICES ASSUME NEW q \in Processes, NEW t \in wrote[q]
               PROVE  /\ directory'[Published(t)] # None
                      /\ files'[directory'[Published(t)]] = Output(q)
    BY DEF WrittenRemains, Exists, Output, Published
  <2>1. Exists(Published(t)) /\ files[directory[Published(t)]] = Output(q)
    BY DEF Sound, WrittenRemains
  <2>2. t \in Targets
    BY TypedFacts
  <2>3. QED
    BY <2>1, <2>2 DEF Untouched, Exists
<1>5. QED
  BY <1>1, <1>2, <1>3, <1>4 DEF Sound

(* What the system calls of a process use and name. *)
LEMMA CallNames ==
  ASSUME Typed, NEW p \in Processes, step[p] # "idle"
  PROVE  /\ directory \in [Names -> {None} \cup DOMAIN files]
         /\ handle \in [Processes -> {None} \cup DOMAIN files]
         /\ files \in Seq(Contents) /\ step \in [Processes -> Steps]
         /\ suffix \in [Processes -> 0 .. MaxSuffix]
         /\ written \in [Processes -> 0 .. Chunks]
         /\ target[p] \in Targets
         /\ Temporary(p) \in Names
         /\ \A t \in Targets : Published(t) \in Names /\ Published(t) # Temporary(p)
<1>1. target[p] \in Targets /\ Temporary(p) \in Names
  BY EngagedTarget
<1>2. suffix[p] \in Nat
  BY TypedFacts, PublishAssumption
<1>3. ASSUME NEW t \in Targets
      PROVE  Published(t) \in Names /\ Published(t) # Temporary(p)
  BY <1>2, PublishAssumption DEF Published, Temporary, Names
<1>4. QED
  BY <1>1, <1>3, TypedFacts

(* A call that only goes on to another step. *)
LEMMA SoundUnchanged ==
  ASSUME Typed, Sound, NEW p \in Processes, phase[p] = "running",
         UNCHANGED <<phase, wrote, directory, files>>, InCharge(p)'
  PROVE  Sound' /\ Untouched
<1>1. Untouched
  BY DEF Untouched
<1>2. NewComplete
  BY DEF NewComplete, Exists
<1>3. Distinct'
  BY DEF Sound, Distinct, Exists
<1>4. QED
  BY <1>1, <1>2, <1>3, SoundCall

(* After a failure the temporary file is gone, or it stays. *)
LEMMA SoundCleaned ==
  ASSUME Typed, Sound, NEW p \in Processes, phase[p] = "running", step[p] # "idle",
         CleanUp(Temporary(p)), step' = [step EXCEPT ![p] = "failed"],
         UNCHANGED <<phase, wrote, files, target, suffix>>
  PROVE  Sound' /\ Untouched
<1>1. \A name \in Names : directory'[name] = directory[name]
                          \/ (name = Temporary(p) /\ directory'[name] = None)
  BY CallNames DEF CleanUp
<1>2. \A t \in Targets : directory'[Published(t)] = directory[Published(t)]
  BY <1>1, CallNames
<1>3. Untouched
  BY <1>2 DEF Untouched
<1>4. NewComplete
  BY <1>2 DEF NewComplete, Exists
<1>5. Distinct'
  <2> SUFFICES ASSUME NEW name \in Names, NEW other \in Names, directory'[name] # None,
                      directory'[name] = directory'[other]
               PROVE  name = other
    BY DEF Distinct, Exists
  <2>1. directory[name] = directory'[name] /\ directory[other] = directory'[other]
    BY <1>1
  <2>2. QED
    BY <2>1 DEF Sound, Distinct, Exists
<1>6. InCharge(p)'
  <2>1. step'[p] = "failed"
    BY CallNames
  <2>2. QED
    BY <2>1 DEF InCharge
<1>7. QED
  BY <1>3, <1>4, <1>5, <1>6, SoundCall

LEMMA SoundOpen ==
  ASSUME Typed, Sound, NEW p \in Processes, phase[p] = "running", Open(p),
         UNCHANGED <<phase, wrote>>
  PROVE  Sound' /\ Untouched
<1> DEFINE new == Len(files) + 1
<1>1. /\ step[p] = "open" /\ UNCHANGED <<target, suffix>>
      /\ written' = [written EXCEPT ![p] = 0]
  BY DEF Open
<1>2. ~Exists(Temporary(p)) /\ ~Exists(Published(target[p]))
  BY <1>1 DEF Sound, InCharge
<1>3. CASE step' = [step EXCEPT ![p] = "failed"] /\ UNCHANGED <<directory, files, handle>>
  <2>1. step'[p] = "failed"
    BY <1>1, <1>3, CallNames
  <2>2. QED
    BY <1>3, <2>1, SoundUnchanged DEF InCharge
<1>4. CASE /\ handle' = [handle EXCEPT ![p] = new]
           /\ files' = Append(files, <<>>)
           /\ directory' = [directory EXCEPT ![Temporary(p)] = new]
           /\ step' = [step EXCEPT ![p] = "write"]
  <2>1. /\ directory \in [Names -> {None} \cup DOMAIN files] /\ files \in Seq(Contents)
        /\ DOMAIN files = 1 .. Len(files) /\ Len(files) \in Nat
        /\ Temporary(p) \in Names /\ target[p] \in Targets
    BY <1>1, CallNames
  <2>2. new \notin DOMAIN files /\ new \in Nat /\ new # None
    BY <2>1, PublishAssumption
  <2>3. /\ directory'[Temporary(p)] = new
        /\ \A name \in Names \ {Temporary(p)} : directory'[name] = directory[name]
    BY <1>4, <2>1
  <2>4. files'[new] = <<>> /\ \A i \in DOMAIN files : files'[i] = files[i]
    BY <1>4, <2>1
  <2>5. \A t \in Targets : directory'[Published(t)] = directory[Published(t)]
    BY <1>1, <2>3, CallNames
  <2>6. Untouched
    <3> SUFFICES ASSUME NEW t \in Targets, Exists(Published(t))
                 PROVE  files'[directory[Published(t)]] = files[directory[Published(t)]]
      BY <2>5 DEF Untouched
    <3>1. Published(t) \in Names
      BY <1>1, CallNames
    <3>2. directory[Published(t)] \in DOMAIN files
      BY <2>1, <3>1 DEF Exists
    <3>3. QED
      BY <2>4, <3>2
  <2>7. NewComplete
    BY <2>5 DEF NewComplete, Exists
  <2>8. Distinct'
    <3> SUFFICES ASSUME NEW name \in Names, NEW other \in Names, directory'[name] # None,
                        directory'[name] = directory'[other]
                 PROVE  name = other
      BY DEF Distinct, Exists
    <3> HIDE DEF new
    <3>1. CASE name = Temporary(p) \/ other = Temporary(p)
      BY <2>1, <2>2, <2>3, <3>1
    <3>2. CASE name # Temporary(p) /\ other # Temporary(p)
      BY <2>3, <3>2 DEF Sound, Distinct, Exists
    <3>3. QED
      BY <3>1, <3>2
  <2>9. InCharge(p)'
    <3>1. /\ step'[p] = "write" /\ handle'[p] = new /\ written'[p] = 0
          /\ Temporary(p)' = Temporary(p) /\ target'[p] = target[p]
      BY <1>1, <1>4, CallNames DEF Temporary
    <3>2. directory'[Published(target[p])] = None
      BY <1>2, <2>1, <2>5 DEF Exists
    <3>3. files'[new] = [i \in 1 .. 0 |-> p]
      BY <2>4
    <3>4. QED
      BY <2>3, <3>1, <3>2, <3>3 DEF InCharge, Exists
  <2>10. QED
    BY <2>6, <2>7, <2>8, <2>9, SoundCall
<1>5. QED
  BY <1>2, <1>3, <1>4 DEF Open

LEMMA SoundWrite ==
  ASSUME Typed, Sound, NEW p \in Processes, phase[p] = "running", Write(p),
         UNCHANGED <<phase, wrote>>
  PROVE  Sound' /\ Untouched
<1> DEFINE file == handle[p]
           n == written[p]
<1>1. /\ step[p] = "write" /\ n < Chunks
      /\ files' = [files EXCEPT ![file] = PutChunk(files[file], n + 1, p)]
      /\ written' = [written EXCEPT ![p] = n + 1]
      /\ UNCHANGED <<directory, step, target, suffix, handle>>
  BY DEF Write
<1>2. /\ directory[Temporary(p)] = file /\ files[file] = [i \in 1 .. n |-> p]
      /\ ~Exists(Published(target[p]))
  BY <1>1 DEF Sound, InCharge
<1>3. n \in Nat /\ file \in DOMAIN files /\ files \in Seq(Contents)
  BY <1>1, CallNames, TypedFacts, PublishAssumption DEF Engaged
<1>4. file # None
  BY <1>3, PublishAssumption
<1>5. /\ files'[file] = [i \in 1 .. n + 1 |-> p]
      /\ \A other \in DOMAIN files \ {file} : files'[other] = files[other]
  <2>1. PutChunk(files[file], n + 1, p) = [i \in 1 .. n + 1 |-> p]
    BY <1>2, <1>3, PutNextChunk
  <2>2. QED
    BY <1>1, <1>3, <2>1
<1>6. Untouched
  <2> SUFFICES ASSUME NEW t \in Targets, Exists(Published(t))
               PROVE  files'[directory[Published(t)]] = files[directory[Published(t)]]
    BY <1>1 DEF Untouched
  <2>1. Published(t) \in Names /\ Temporary(p) \in Names /\ Published(t) # Temporary(p)
    BY <1>1, CallNames
  <2>2. directory[Published(t)] \in DOMAIN files
    BY <1>1, <2>1, CallNames DEF Exists
  <2>3. directory[Published(t)] # file
    BY <1>2, <2>1 DEF Sound, Distinct
  <2>4. QED
    BY <1>5, <2>2, <2>3
<1>7. NewComplete
  BY <1>1 DEF NewComplete, Exists
<1>8. Distinct'
  BY <1>1 DEF Sound, Distinct, Exists
<1>9. InCharge(p)'
  <2>1. written'[p] = n + 1
    BY <1>1, CallNames
  <2>2. /\ step'[p] = "write" /\ handle'[p] = file /\ directory'[Temporary(p)] = file
        /\ Temporary(p)' = Temporary(p) /\ target'[p] = target[p]
        /\ directory'[Published(target[p])] = None
    BY <1>1, <1>2 DEF Temporary, Exists
  <2>3. QED
    BY <1>5, <2>1, <2>2 DEF InCharge, Exists
<1>10. QED
  BY <1>1, <1>6, <1>7, <1>8, <1>9, SoundCall

LEMMA SoundRename ==
  ASSUME Typed, Sound, NEW p \in Processes, phase[p] = "running", Rename(p),
         UNCHANGED <<phase, wrote>>
  PROVE  Sound' /\ Untouched
<1> DEFINE from == Temporary(p)
           to == Published(target[p])
<1>1. /\ step[p] = "rename" /\ UNCHANGED <<files, target, suffix>>
      /\ directory' = [directory EXCEPT ![to] = directory[from], ![from] = None]
      /\ step' = [step EXCEPT ![p] = "written"]
  BY DEF Rename
<1>2. Exists(from) /\ files[directory[from]] = Output(p) /\ ~Exists(to)
  BY <1>1 DEF Sound, InCharge
<1>3. directory \in [Names -> {None} \cup DOMAIN files] /\ from \in Names /\ to \in Names
      /\ from # to /\ target[p] \in Targets
  BY <1>1, CallNames
<1>4. /\ directory'[to] = directory[from] /\ directory'[from] = None
      /\ \A name \in Names \ {from, to} : directory'[name] = directory[name]
  <2> HIDE DEF from, to
  <2>1. QED
    BY <1>1, <1>3
<1>5. ASSUME NEW t \in Targets, t # target[p]
      PROVE  directory'[Published(t)] = directory[Published(t)]
  <2>1. Published(t) \in Names /\ Published(t) # from
    BY <1>1, CallNames
  <2>2. Published(t) # to
    BY <1>5 DEF Published
  <2>3. QED
    BY <1>4, <2>1, <2>2
<1>6. Untouched
  BY <1>1, <1>2, <1>5 DEF Untouched
<1>7. NewComplete
  <2> SUFFICES ASSUME NEW t \in Targets, directory'[Published(t)] # None,
                      ~Exists(Published(t))
               PROVE  files[directory'[Published(t)]] = Output(p)
    BY <1>1 DEF NewComplete
  <2>1. t = target[p]
    BY <1>5 DEF Exists
  <2>2. QED
    BY <1>2, <1>4, <2>1
<1>8. Distinct'
  <2> SUFFICES ASSUME NEW name \in Names, NEW other \in Names, directory'[name] # None,
                      directory'[name] = directory'[other]
               PROVE  name = other
    BY DEF Distinct, Exists
  <2> HIDE DEF from, to
  <2>1. name # from /\ other # from
    BY <1>4
  <2>2. CASE name = to /\ other # to
    BY <1>2, <1>3, <1>4, <2>1, <2>2 DEF Sound, Distinct
  <2>3. CASE name # to /\ other = to
    BY <1>2, <1>3, <1>4, <2>1, <2>3 DEF Sound, Distinct
  <2>4. CASE name # to /\ other # to
    BY <1>4, <2>1, <2>4 DEF Sound, Distinct, Exists
  <2>5. QED
    BY <2>2, <2>3, <2>4
<1>9. InCharge(p)'
  <2>1. step'[p] = "written" /\ target'[p] = target[p]
    BY <1>1, CallNames
  <2>2. directory'[to] # None /\ files'[directory'[to]] = Output(p)
    BY <1>1, <1>2, <1>4 DEF Exists
  <2>3. QED
    BY <2>1, <2>2 DEF InCharge, Exists, Output, Published
<1>10. QED
  BY <1>6, <1>7, <1>8, <1>9, SoundCall

LEMMA CallSound ==
  ASSUME Typed, Sound, NEW p \in Processes, Call(p)
  PROVE  Sound' /\ Untouched
<1>1. phase[p] = "running" /\ UNCHANGED <<phase, wrote>>
  BY DEF Call, batchVars
<1>2. InCharge(p)
  BY DEF Sound
<1>3. CASE Inspect(p)
  <2>1. step[p] = "inspect" /\ UNCHANGED <<directory, files, target>>
    BY <1>3 DEF Inspect
  <2>2. \/ step'[p] \in {"exists", "failed"}
        \/ step'[p] = "probe" /\ ~Exists(Published(target[p]))
    BY <1>3, <2>1, CallNames DEF Inspect
  <2>3. InCharge(p)'
    BY <2>1, <2>2 DEF InCharge, Exists
  <2>4. QED
    BY <1>1, <2>1, <2>3, SoundUnchanged
<1>4. CASE Probe(p)
  <2>1. /\ step[p] = "probe" /\ UNCHANGED <<directory, files, target>>
        /\ ~Exists(Published(target[p]))
    BY <1>1, <1>2, <1>4 DEF Probe, InCharge
  <2>2. \/ step'[p] \in {"probe", "failed"}
        \/ step'[p] = "open" /\ ~Exists(Temporary(p)) /\ UNCHANGED suffix
    BY <1>4, <2>1, CallNames DEF Probe
  <2>3. InCharge(p)'
    BY <2>1, <2>2 DEF InCharge, Exists, Temporary
  <2>4. QED
    BY <1>1, <2>1, <2>3, SoundUnchanged
<1>5. CASE Open(p)
  BY <1>1, <1>5, SoundOpen
<1>6. CASE Write(p)
  BY <1>1, <1>6, SoundWrite
<1>7. CASE WriteFails(p)
  BY <1>1, <1>7, SoundCleaned DEF WriteFails
<1>8. CASE Close(p)
  <2>1. /\ step[p] = "write" /\ written[p] = Chunks
        /\ UNCHANGED <<directory, files, target, suffix>>
        /\ step' = [step EXCEPT ![p] = "rename"]
    BY <1>8 DEF Close
  <2>2. /\ files[handle[p]] = Output(p) /\ directory[Temporary(p)] = handle[p]
        /\ ~Exists(Published(target[p]))
    BY <1>1, <1>2, <2>1 DEF InCharge, Output
  <2>3. handle[p] # None
    BY <1>1, <2>1, TypedFacts, PublishAssumption DEF Engaged
  <2>4. step'[p] = "rename" /\ Temporary(p)' = Temporary(p) /\ target'[p] = target[p]
    BY <2>1, CallNames DEF Temporary
  <2>5. InCharge(p)'
    BY <2>1, <2>2, <2>3, <2>4 DEF InCharge, Exists, Output
  <2>6. QED
    BY <1>1, <2>1, <2>5, SoundUnchanged
<1>9. CASE Rename(p)
  BY <1>1, <1>9, SoundRename
<1>10. CASE RenameFails(p)
  BY <1>1, <1>10, SoundCleaned DEF RenameFails
<1>11. QED
  BY <1>3, <1>4, <1>5, <1>6, <1>7, <1>8, <1>9, <1>10 DEF Call, Advance

(* A step of p that leaves the directory and the files alone, and after     *)
(* which p is in no system call.                                            *)
LEMMA SoundOutside ==
  ASSUME Typed, Sound, NEW p \in Processes, UNCHANGED <<directory, files>>, Alone',
         \A q \in Processes \ {p} :
           /\ phase'[q] = phase[q] /\ step'[q] = step[q] /\ target'[q] = target[q]
           /\ suffix'[q] = suffix[q] /\ handle'[q] = handle[q] /\ written'[q] = written[q],
         step'[p] \in {"idle", "inspect"} \/ phase'[p] # "running",
         \A q \in Processes : \A t \in wrote'[q] :
           Exists(Published(t)) /\ files[directory[Published(t)]] = Output(q)
  PROVE  Sound'
<1>1. Distinct' /\ PublishedComplete'
  BY DEF Sound, Distinct, PublishedComplete, Exists, Output, Published
<1>2. WrittenRemains'
  BY DEF WrittenRemains, Exists, Output, Published
<1>3. ASSUME NEW q \in Processes
      PROVE  InCharge(q)'
  <2>1. CASE q = p
    BY <2>1 DEF InCharge
  <2>2. CASE q # p
    <3>1. InCharge(q)
      BY DEF Sound
    <3>2. QED
      BY <2>2, <3>1 DEF InCharge, Exists, Published, Temporary, Output
  <2>3. QED
    BY <2>1, <2>2
<1>4. QED
  BY <1>1, <1>2, <1>3 DEF Sound

LEMMA InitSound == BatchInit => Sound
<1> SUFFICES ASSUME BatchInit
             PROVE  Sound
  OBVIOUS
<1>1. /\ \A name \in Names : directory[name] = None
      /\ \A p \in Processes : phase[p] = "waiting" /\ wrote[p] = {}
  BY DEF BatchInit, PublishInit
<1>2. \A t \in Targets : ~Exists(Published(t))
  BY <1>1 DEF Exists, Published, Names
<1>3. QED
  BY <1>1, <1>2
     DEF Sound, Alone, Distinct, InCharge, PublishedComplete, WrittenRemains, Exists

LEMMA SoundKept ==
  ASSUME ~Overlapping, Typed, Sound, [BatchNext]_allVars
  PROVE  Sound'
<1>1. CASE UNCHANGED allVars
  <2>1. UNCHANGED <<directory, files, step, target, suffix, handle, written, phase, wrote>>
    BY <1>1 DEF allVars, publishVars, batchVars
  <2>2. QED
    BY <2>1 DEF Sound, Alone, Distinct, InCharge, PublishedComplete, WrittenRemains,
                Exists, Published, Temporary, Output
<1>2. /\ phase \in [Processes -> Phases] /\ step \in [Processes -> Steps]
      /\ target \in [Processes -> Targets \cup {None}]
      /\ handle \in [Processes -> {None} \cup DOMAIN files]
      /\ wrote \in [Processes -> SUBSET Targets]
  BY TypedFacts
<1>3. /\ Alone
      /\ \A q \in Processes : \A t \in wrote[q] :
           Exists(Published(t)) /\ files[directory[Published(t)]] = Output(q)
  BY DEF Sound, WrittenRemains
<1>4. ASSUME NEW p \in Processes, UNCHANGED publishVars, UNCHANGED wrote,
             step[p] = "idle",
             \A q \in Processes \ {p} : phase'[q] = phase[q], Alone'
      PROVE  Sound'
  <2>1. UNCHANGED <<directory, files, step, target, suffix, handle, written>>
    BY <1>4 DEF publishVars
  <2>2. QED
    BY <1>3, <1>4, <2>1, SoundOutside
<1>5. ASSUME NEW p \in Processes, Start(p)
      PROVE  Sound'
  <2>1. step[p] = "idle" /\ \A q \in Processes \ {p} : phase'[q] = phase[q]
    BY <1>2, <1>5, TypedFacts DEF Start, Engaged
  <2>2. \A q \in Processes : phase[q] # "running"
    BY <1>5 DEF Start
  <2>3. Alone'
    BY <2>1, <2>2 DEF Alone
  <2>4. QED
    BY <1>4, <1>5, <2>1, <2>3 DEF Start
<1>6. ASSUME NEW p \in Processes, ReadCbl(p) \/ ReadOxq(p) \/ EncodeFails(p)
      PROVE  Sound'
  <2>1. /\ UNCHANGED publishVars /\ UNCHANGED wrote /\ UNCHANGED phase
        /\ step[p] = "idle"
    BY <1>6 DEF ReadCbl, ReadOxq, EncodeFails, Idle
  <2>2. Alone'
    BY <1>3, <2>1 DEF Alone
  <2>3. QED
    BY <1>4, <2>1, <2>2
<1>7. ASSUME NEW p \in Processes, Reject(p) \/ Finish(p)
      PROVE  Sound'
  <2>1. /\ UNCHANGED publishVars /\ UNCHANGED wrote /\ step[p] = "idle"
        /\ phase' = [phase EXCEPT ![p] = "ended"]
    BY <1>7 DEF Reject, Finish, Idle
  <2>2. phase'[p] = "ended" /\ \A q \in Processes \ {p} : phase'[q] = phase[q]
    BY <1>2, <2>1
  <2>3. Alone'
    BY <1>3, <2>2 DEF Alone
  <2>4. QED
    BY <1>4, <2>1, <2>2, <2>3
<1>8. ASSUME NEW p \in Processes, Publish(p)
      PROVE  Sound'
  <2>1. /\ UNCHANGED <<directory, files, suffix, handle, written, phase, wrote>>
        /\ step' = [step EXCEPT ![p] = "inspect"]
        /\ target' = [target EXCEPT ![p] = Head(games[p])]
    BY <1>8 DEF Publish, Begin, batchVars
  <2>2. /\ step'[p] = "inspect"
        /\ \A q \in Processes \ {p} : step'[q] = step[q] /\ target'[q] = target[q]
    BY <1>2, <2>1
  <2>3. Alone'
    BY <1>3, <2>1 DEF Alone
  <2>4. QED
    BY <1>3, <2>1, <2>2, <2>3, SoundOutside
<1>9. ASSUME NEW p \in Processes, CountResult(p)
      PROVE  Sound'
  <2>1. /\ phase[p] = "running"
        /\ UNCHANGED <<directory, files, target, suffix, handle, written, phase>>
        /\ step' = [step EXCEPT ![p] = "idle"]
        /\ \/ wrote' = [wrote EXCEPT ![p] = @ \cup {target[p]}] /\ step[p] = "written"
           \/ UNCHANGED wrote
    BY <1>9 DEF CountResult, Return
  <2>2. /\ step'[p] = "idle" /\ \A q \in Processes \ {p} : step'[q] = step[q]
    BY <1>2, <2>1
  <2>3. ASSUME NEW q \in Processes, NEW t \in wrote'[q]
        PROVE  Exists(Published(t)) /\ files[directory[Published(t)]] = Output(q)
    <3>1. CASE t \in wrote[q]
      BY <1>3, <3>1
    <3>2. CASE t \notin wrote[q]
      <4>1. q = p /\ t = target[p] /\ step[p] = "written"
        BY <1>2, <2>1, <2>3, <3>2
      <4>2. InCharge(p)
        BY DEF Sound
      <4>3. QED
        BY <2>1, <4>1, <4>2 DEF InCharge
    <3>3. QED
      BY <3>1, <3>2
  <2>4. Alone'
    BY <1>3, <2>1 DEF Alone
  <2>5. QED
    BY <2>1, <2>2, <2>3, <2>4, SoundOutside
<1>10. ASSUME NEW p \in Processes, Kill(p)
       PROVE  Sound'
  <2>1. /\ UNCHANGED <<directory, files, step, target, suffix, written, wrote>>
        /\ phase' = [phase EXCEPT ![p] = "killed"]
        /\ handle' = [handle EXCEPT ![p] = None]
    BY <1>10 DEF Kill
  <2>2. /\ phase'[p] = "killed"
        /\ \A q \in Processes \ {p} : phase'[q] = phase[q] /\ handle'[q] = handle[q]
    BY <1>2, <2>1
  <2>3. Alone'
    BY <1>3, <2>2 DEF Alone
  <2>4. QED
    BY <1>3, <2>1, <2>2, <2>3, SoundOutside
<1>11. QED
  BY <1>1, <1>5, <1>6, <1>7, <1>8, <1>9, <1>10, CallSound DEF BatchNext, Work

(* Published files stay as they are in every step.                          *)
LEMMA StepUntouched ==
  ASSUME Typed, Sound, [BatchNext]_allVars
  PROVE  Untouched
<1>1. CASE UNCHANGED <<directory, files>>
  BY <1>1 DEF Untouched
<1>2. CASE UNCHANGED allVars
  BY <1>1, <1>2 DEF allVars, publishVars
<1>3. ASSUME NEW p \in Processes, Work(p), ~Call(p)
      PROVE  UNCHANGED <<directory, files>>
  BY <1>3 DEF Work, Start, ReadCbl, ReadOxq, Publish, Begin, EncodeFails, Reject,
              CountResult, Return, Finish, publishVars
<1>4. ASSUME NEW p \in Processes, Kill(p)
      PROVE  UNCHANGED <<directory, files>>
  BY <1>4 DEF Kill
<1>5. QED
  BY <1>1, <1>2, <1>3, <1>4, CallSound DEF BatchNext

LEMMA AlwaysSound ==
  ASSUME ~Overlapping
  PROVE  BatchSpec => [](Typed /\ Sound)
<1>1. Typed /\ Sound /\ [BatchNext]_allVars => (Typed /\ Sound)'
  BY BatchTyped, SoundKept
<1>2. QED
  BY <1>1, InitTyped, InitSound, PTL DEF BatchSpec

(* What has the name of a target is the whole output of some process, if no *)
(* two processes run at the same time.                                      *)
THEOREM PublishedFilesComplete ==
  ASSUME ~Overlapping
  PROVE  BatchSpec => []PublishedComplete
<1>1. Sound => PublishedComplete
  BY DEF Sound
<1>2. QED
  BY <1>1, AlwaysSound, PTL

(* What a process counts as written stays, if no two run at the same time.  *)
THEOREM WrittenFilesRemain ==
  ASSUME ~Overlapping
  PROVE  BatchSpec => []WrittenRemains
<1>1. Sound => WrittenRemains
  BY DEF Sound
<1>2. QED
  BY <1>1, AlwaysSound, PTL

(* An existing target is never replaced, removed or written to, if no two   *)
(* processes run at the same time, whatever killed ones have left behind.   *)
THEOREM ExistingTargetsKept ==
  ASSUME ~Overlapping
  PROVE  BatchSpec => NeverOverwritten
<1>1. Untouched =>
        \A t \in Targets : Exists(Published(t)) =>
          /\ directory'[Published(t)] = directory[Published(t)]
          /\ files'[directory[Published(t)]] = files[directory[Published(t)]]
  BY DEF Untouched
<1>2. Typed /\ Sound /\ [BatchNext]_allVars =>
        [\A t \in Targets : Exists(Published(t)) =>
          /\ directory'[Published(t)] = directory[Published(t)]
          /\ files'[directory[Published(t)]] = files[directory[Published(t)]]]_publishVars
  BY <1>1, StepUntouched
<1>3. QED
  BY <1>2, AlwaysSound, PTL DEF BatchSpec, NeverOverwritten
=============================================================================
