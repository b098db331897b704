--------------------------- MODULE MigratorProofs ---------------------------
(* What the migration tasks of one run_id guarantee, for any table, any      *)
(* ranges, batch size and number of tasks, whatever fails or is stopped.     *)
EXTENDS Migrator, FiniteSetTheorems, TLAPS

(* Gens are the positive numbers up to the bound.                           *)
LEMMA GensFact == \A g \in Gens : g \in Nat /\ g # 0 /\ g \in 0..MaxRuns
BY RunsAssumption DEF Gens

(* A step of one range changes the place of that range only.                *)
LEMMA StepFact ==
  ASSUME TypeOK, NEW g \in Gens, NEW c \in Chans, NEW from, NEW to \in ChanPCs,
         Step(g, c, from, to)
  PROVE  /\ cpc' \in [Gens -> [Chans -> ChanPCs]]
         /\ cpc[g][c] = from /\ cpc'[g][c] = to
         /\ \A h \in Gens, d \in Chans : h # g \/ d # c => cpc'[h][d] = cpc[h][d]
<1>1. cpc \in [Gens -> [Chans -> ChanPCs]] /\ cpc[g] \in [Chans -> ChanPCs]
    BY DEF TypeOK
<1>2. cpc' = [cpc EXCEPT ![g] = [cpc[g] EXCEPT ![c] = to]]
    BY DEF Step
<1>3. [cpc[g] EXCEPT ![c] = to] \in [Chans -> ChanPCs]
    BY <1>1
<1> QED BY <1>1, <1>2, <1>3 DEF Step

(* A commit adds one to the rows of the buffer.                             *)
LEMMA ApplyFact ==
  ASSUME TypeOK, NEW g \in Gens, NEW c \in Chans, Apply(g, c)
  PROVE  /\ stored' \in [Gens -> [Rows -> Nat]]
         /\ \A r \in Rows : stored'[g][r] =
              IF r \in buf[g][c] THEN stored[g][r] + 1 ELSE stored[g][r]
         /\ \A h \in Gens : h # g => stored'[h] = stored[h]
<1> DEFINE new == [r \in Rows |-> stored[g][r] + IF r \in buf[g][c] THEN 1 ELSE 0]
<1>1. stored \in [Gens -> [Rows -> Nat]] /\ stored[g] \in [Rows -> Nat]
    BY DEF TypeOK
<1>2. new \in [Rows -> Nat]
    BY <1>1
<1>3. stored' = [stored EXCEPT ![g] = new]
    BY <1>1 DEF Apply
<1>4. \A r \in Rows : new[r] = IF r \in buf[g][c] THEN stored[g][r] + 1 ELSE stored[g][r]
    BY <1>1
<1> HIDE DEF new
<1>5. stored' \in [Gens -> [Rows -> Nat]]
    BY <1>1, <1>2, <1>3
<1>6. stored'[g] = new /\ \A h \in Gens : h # g => stored'[h] = stored[h]
    BY <1>1, <1>3
<1> QED BY <1>4, <1>5, <1>6

(* The steps of execute and of the goroutines keep the types.               *)
LEMMA TypeStep == TypeOK /\ [Next]_vars => TypeOK'
<1> SUFFICES ASSUME TypeOK, [Next]_vars PROVE TypeOK'
    OBVIOUS
<1> USE DEF TypeOK, taskVars, chanVars, stopVars
<1>0. Fault => faults' \in 0..MaxFaults
    BY RunsAssumption DEF Fault
<1>1. ASSUME NEW g \in Gens, Run(g) PROVE TypeOK'
    BY <1>1, GensFact DEF Run
<1>2. ASSUME NEW g \in Gens, InstallCancel(g) \/ SetStatus(g) PROVE TypeOK'
    BY <1>2 DEF InstallCancel, SetStatus, Advance, Ended
<1>3. ASSUME NEW g \in Gens, StartChannels(g) PROVE TypeOK'
    BY <1>3, PartAssumption DEF StartChannels, Advance, ChanPCs
<1>4. ASSUME NEW g \in Gens, SetupFails(g) \/ Judge(g) PROVE TypeOK'
  <2>1. CASE SetupFails(g)
      BY <1>0, <2>1 DEF SetupFails, Advance, Verdict, Ended
  <2>2. CASE Judge(g)
      BY <2>2 DEF Judge, Advance, Verdict, Ended
  <2> QED BY <1>4, <2>1, <2>2
<1>5. ASSUME NEW g \in Gens, NEW c \in Chans, ReadRow(g, c) PROVE TypeOK'
    BY <1>5 DEF ReadRow, Step, ChanPCs
<1>6. ASSUME NEW g \in Gens, NEW c \in Chans, EndOfRows(g, c) \/ Write(g, c)
      PROVE  TypeOK'
  <2>1. PICK from, to \in ChanPCs : Step(g, c, from, to)
      BY <1>6 DEF EndOfRows, Write, ChanPCs
  <2>2. cpc' \in [Gens -> [Chans -> ChanPCs]]
      BY <2>1, StepFact
  <2> QED BY <1>6, <2>2 DEF EndOfRows, Write
<1>8. ASSUME NEW g \in Gens, NEW c \in Chans, Commit(g, c) \/ CommitUnknown(g, c)
      PROVE  TypeOK'
  <2>1. PICK from, to \in ChanPCs : Step(g, c, from, to)
      BY <1>8 DEF Commit, CommitUnknown, ChanPCs
  <2>2. cpc' \in [Gens -> [Chans -> ChanPCs]]
      BY <2>1, StepFact
  <2>3. stored' \in [Gens -> [Rows -> Nat]]
      BY <1>8, ApplyFact DEF Commit, CommitUnknown
  <2> QED BY <1>0, <1>8, <2>2, <2>3 DEF Commit, CommitUnknown
<1>9. ASSUME NEW g \in Gens, NEW c \in Chans, ChannelFails(g, c) PROVE TypeOK'
    BY <1>0, <1>9 DEF ChannelFails, ChanPCs
<1>10. ASSUME NEW s \in Stops, Stop(s) PROVE TypeOK'
  <2>1. 0 \in 0..MaxRuns
      BY RunsAssumption
  <2>2. CASE FindTask(s)
      BY <2>1, <2>2 DEF FindTask
  <2>3. CASE StopTooLate(s)
      BY <2>1, <2>3 DEF StopTooLate, StopAnswers
  <2>6. CASE TakeCancel(s)
    <3>1. sgen[s] \in Gens
        BY <2>6, RunsAssumption DEF TakeCancel, Running, Gens
    <3> QED BY <2>6, <3>1 DEF TakeCancel
  <2>4. CASE StopNothing(s)
    <3>1. sgen[s] \in Gens
        BY <2>4 DEF StopNothing, Running, Gens
    <3> QED BY <2>1, <2>4, <3>1 DEF StopNothing, StopAnswers
  <2>5. CASE CallCancel(s)
    <3>1. /\ ctx' \in [Gens -> BOOLEAN]
          /\ spc' \in [Stops -> {"idle", "found", "cancel"}]
          /\ sgen' \in [Stops -> 0..MaxRuns]
          /\ \A t \in Stops : spc'[t] = "cancel" => sgen'[t] \in Gens
        BY <2>1, <2>5 DEF CallCancel, StopAnswers
    <3>2. sgen[s] \in Gens
        BY <2>5 DEF CallCancel
    <3> QED BY <2>5, <3>1, <3>2 DEF CallCancel
  <2> QED BY <1>10, <2>2, <2>3, <2>4, <2>5, <2>6 DEF Stop
<1>11. CASE Crash
    BY <1>0, <1>11, RunsAssumption DEF Crash, ChanPCs
<1>12. CASE UNCHANGED vars
    BY <1>12 DEF vars
<1>13. ASSUME NEW g \in Gens, NEW c \in Chans, Count(g, c) PROVE TypeOK'
  <2>1. Step(g, c, "count", "read") /\ "read" \in ChanPCs
      BY <1>13 DEF Count, ChanPCs
  <2>2. cpc' \in [Gens -> [Chans -> ChanPCs]]
      BY <2>1, StepFact
  <2>3. Cardinality(buf[g][c]) \in Nat
      BY RowsAssumption, FS_Subset, FS_CardinalityType
  <2>4. nwritten' \in [Gens -> Nat]
      BY <1>13, <2>3 DEF Count
  <2>5. buf' \in [Gens -> [Chans -> SUBSET Rows]]
      BY <1>13 DEF Count
  <2> QED BY <1>13, <2>2, <2>4, <2>5 DEF Count
<1> QED BY <1>1, <1>2, <1>3, <1>4, <1>5, <1>6, <1>8, <1>9, <1>10, <1>11, <1>12, <1>13
        DEF Next, Execute, Channel

(* The type invariant of the registry, the tasks and the goroutines.         *)
THEOREM TypeCorrect == Spec => []TypeOK
<1>1. Init => TypeOK
    BY RunsAssumption DEF Init, TypeOK, Gens, Ended, ChanPCs
<1> QED BY <1>1, TypeStep, PTL DEF Spec

(* RowsOK is about one range and its rows.                                  *)
LEMMA RowsStep == IndInv /\ [Next]_vars => RowsOK'
<1> SUFFICES ASSUME IndInv, [Next]_vars PROVE RowsOK'
    OBVIOUS
<1>0. TypeOK /\ TypeOK' /\ RowsOK /\ PhasesOK
    BY TypeStep DEF IndInv
<1>1. CASE UNCHANGED <<cpc, todo, buf, stored>>
    BY <1>0, <1>1 DEF RowsOK, RowsOf
<1>2. ASSUME NEW g \in Gens, StartChannels(g) PROVE RowsOK'
  <2> SUFFICES ASSUME NEW h \in Gens, NEW d \in Chans
               PROVE  RowsOf(h, d)'
      BY DEF RowsOK
  <2>1. CASE h # g
      BY <1>0, <1>2, <2>1 DEF StartChannels, RowsOK, RowsOf, TypeOK
  <2>2. CASE h = g
    <3>1. mpc[g] = "started" /\ buf'[g][d] = {} /\ \A r \in Rows : stored'[g][r] = 0
        BY <1>0, <1>2 DEF StartChannels, Advance, PhasesOK, PhaseOf
    <3>2. cpc'[g][d] = "read" /\ todo'[g][d] = Part[d] /\ Part[d] \subseteq Rows
        BY <1>0, <1>2, PartAssumption DEF StartChannels, TypeOK
    <3> QED BY <2>2, <3>1, <3>2 DEF RowsOf
  <2> QED BY <2>1, <2>2
<1>3. CASE Crash
    BY <1>0, <1>3 DEF Crash, RowsOK, RowsOf
<1>4. ASSUME NEW g \in Gens, NEW c \in Chans, NEW h \in Gens, NEW d \in Chans,
             h # g \/ d # c,
             cpc'[h][d] = cpc[h][d], todo'[h][d] = todo[h][d], buf'[h][d] = buf[h][d],
             \A r \in Part[d] : stored'[h][r] = stored[h][r]
      PROVE  RowsOf(h, d)'
    BY <1>0, <1>4 DEF RowsOK, RowsOf
<1>5. ASSUME NEW g \in Gens, NEW c \in Chans, Channel(g, c) PROVE RowsOK'
  <2> SUFFICES ASSUME NEW h \in Gens, NEW d \in Chans
               PROVE  RowsOf(h, d)'
      BY DEF RowsOK
  <2> USE <1>0
  <2>0. RowsOf(g, c) /\ RowsOf(h, d)
      BY DEF RowsOK
  <2>1. CASE ReadRow(g, c)
    <3>1. PICK r \in todo[g][c], to \in ChanPCs :
            /\ todo' = [todo EXCEPT ![g][c] = @ \ {r}]
            /\ buf'  = [buf EXCEPT ![g][c] = @ \cup {r}]
            /\ Step(g, c, "read", to) /\ to \in {"read", "begin"}
        BY <2>1 DEF ReadRow, ChanPCs
    <3>2. stored' = stored
        BY <2>1 DEF ReadRow
    <3>3. CASE h = g /\ d = c
      <4>1. cpc[g][c] = "read" /\ cpc'[g][c] \in {"read", "begin"}
          BY <3>1, StepFact
      <4>2. todo'[g][c] = todo[g][c] \ {r} /\ buf'[g][c] = buf[g][c] \cup {r}
          BY <3>1 DEF TypeOK
      <4> QED BY <2>0, <3>2, <3>3, <4>1, <4>2 DEF RowsOf
    <3>4. CASE h # g \/ d # c
      <4>1. cpc'[h][d] = cpc[h][d]
          BY <3>1, <3>4, StepFact
      <4>2. todo'[h][d] = todo[h][d] /\ buf'[h][d] = buf[h][d]
          BY <3>1, <3>4 DEF TypeOK
      <4> QED BY <1>4, <3>2, <3>4, <4>1, <4>2
    <3> QED BY <3>3, <3>4
  <2>2. CASE EndOfRows(g, c)
    <3>1. PICK to \in ChanPCs : /\ Step(g, c, "read", to) /\ to \in {"ok", "begin"}
                                /\ to = "ok" => buf[g][c] = {} /\ todo[g][c] = {}
        BY <2>2 DEF EndOfRows, ChanPCs
    <3>2. cpc[g][c] = "read" /\ cpc'[g][c] = to
          /\ (h # g \/ d # c => cpc'[h][d] = cpc[h][d])
        BY <3>1, StepFact
    <3>3. todo' = todo /\ buf' = buf /\ stored' = stored
        BY <2>2 DEF EndOfRows
    <3> QED BY <1>4, <2>0, <3>1, <3>2, <3>3 DEF RowsOf
  <2>3. CASE Write(g, c)
    <3>1. Step(g, c, "begin", "commit") /\ "commit" \in ChanPCs
        BY <2>3 DEF Write, ChanPCs
    <3>2. cpc[g][c] = "begin" /\ cpc'[g][c] = "commit"
          /\ (h # g \/ d # c => cpc'[h][d] = cpc[h][d])
        BY <3>1, StepFact
    <3>3. todo' = todo /\ buf' = buf /\ stored' = stored
        BY <2>3 DEF Write
    <3> QED BY <1>4, <2>0, <3>2, <3>3 DEF RowsOf
  <2>4. CASE Commit(g, c) \/ CommitUnknown(g, c)
    <3>1. PICK to \in {"count", "failed"} : Step(g, c, "commit", to) /\ to \in ChanPCs
        BY <2>4 DEF Commit, CommitUnknown, ChanPCs
    <3>2. cpc[g][c] = "commit" /\ cpc'[g][c] = to
          /\ (h # g \/ d # c => cpc'[h][d] = cpc[h][d])
        BY <3>1, StepFact
    <3>3. todo' = todo /\ buf' = buf
        BY <2>4 DEF Commit, CommitUnknown
    <3>4. /\ \A r \in Rows : stored'[g][r] =
               IF r \in buf[g][c] THEN stored[g][r] + 1 ELSE stored[g][r]
          /\ h # g => stored'[h] = stored[h]
        BY <2>4, ApplyFact DEF Commit, CommitUnknown
    <3>5. Part[d] \subseteq Rows /\ Part[c] \subseteq Rows
        BY PartAssumption
    <3>6. CASE h = g /\ d = c
      <4>1. \A r \in Part[c] : stored[g][r] \in Nat
          BY <3>5 DEF TypeOK
      <4>2. \A r \in buf[g][c] : stored[g][r] = 0 /\ stored'[g][r] = 1
          BY <2>0, <3>2, <3>4, <3>5, <3>6 DEF RowsOf
      <4>3. \A r \in Part[c] : r \notin buf[g][c] => stored'[g][r] = stored[g][r]
          BY <3>4, <3>5
      <4> QED BY <2>0, <3>2, <3>3, <3>6, <4>2, <4>3 DEF RowsOf
    <3>7. CASE h # g
        BY <1>4, <3>2, <3>3, <3>4, <3>7
    <3>8. CASE h = g /\ d # c
      <4>1. \A r \in Part[d] : r \notin buf[g][c]
          BY <2>0, <3>8, PartAssumption DEF RowsOK, RowsOf
      <4>2. \A r \in Part[d] : stored'[h][r] = stored[h][r]
          BY <3>4, <3>5, <3>8, <4>1
      <4> QED BY <1>4, <3>2, <3>3, <3>8, <4>2
    <3> QED BY <3>6, <3>7, <3>8
  <2>5. CASE Count(g, c)
    <3>1. Step(g, c, "count", "read") /\ "read" \in ChanPCs
        BY <2>5 DEF Count, ChanPCs
    <3>2. cpc[g][c] = "count" /\ cpc'[g][c] = "read"
          /\ (h # g \/ d # c => cpc'[h][d] = cpc[h][d])
        BY <3>1, StepFact
    <3>3. /\ todo' = todo /\ stored' = stored
          /\ buf'[g][c] = {} /\ (h # g \/ d # c => buf'[h][d] = buf[h][d])
        BY <2>5 DEF Count, TypeOK
    <3> QED BY <1>4, <2>0, <3>2, <3>3 DEF RowsOf
  <2>6. CASE ChannelFails(g, c)
    <3>1. /\ cpc'[g][c] = "failed" /\ (h # g \/ d # c => cpc'[h][d] = cpc[h][d])
          /\ todo' = todo /\ stored' = stored /\ buf' = buf
        BY <2>6 DEF ChannelFails, TypeOK
    <3> QED BY <1>4, <2>0, <3>1 DEF RowsOf
  <2> QED BY <1>5, <2>1, <2>2, <2>3, <2>4, <2>5, <2>6 DEF Channel
<1> QED BY <1>1, <1>2, <1>3, <1>5
        DEF Next, Execute, Run, InstallCancel, SetupFails, Judge, SetStatus, Stop,
            FindTask, StopTooLate, StopNothing, TakeCancel, CallCancel, chanVars, vars

(* PhasesOK is about one task: where execute is against what the goroutines  *)
(* have done.                                                                *)
LEMMA PhasesStep == IndInv /\ [Next]_vars => PhasesOK'
<1> SUFFICES ASSUME IndInv, [Next]_vars, NEW h \in Gens PROVE PhaseOf(h)'
    BY DEF PhasesOK
<1>0. TypeOK /\ TypeOK' /\ RowsOK /\ PhasesOK /\ PhaseOf(h)
    BY TypeStep DEF IndInv, PhasesOK
<1> USE <1>0
<1>1. CASE UNCHANGED <<taskVars, cpc, buf, stored>>
    BY <1>1 DEF PhaseOf, taskVars, Live
<1>2. ASSUME NEW g \in Gens, Run(g) PROVE PhaseOf(h)'
  <2>1. CASE h = g
    <3>1. current' = g /\ status'[g] = "running" /\ mpc'[g] = "spawned"
        BY <1>2 DEF Run, TypeOK
    <3>2. /\ \A c \in Chans : cpc'[g][c] = "off" /\ buf'[g][c] = {}
          /\ \A r \in Rows : stored'[g][r] = 0
        BY <1>2, <2>1 DEF Run, PhaseOf, chanVars
    <3> QED BY <2>1, <3>1, <3>2 DEF PhaseOf, Live
  <2>2. CASE h # g
    <3>1. status[h] # "running" /\ mpc[h] = "off"
        BY <1>2, GensFact DEF Run, Running, PhaseOf
    <3>2. /\ status'[h] = status[h] /\ mpc'[h] = mpc[h] /\ cpc' = cpc /\ buf' = buf
          /\ stored' = stored /\ verdict' = verdict
        BY <1>2, <2>2 DEF Run, TypeOK, chanVars
    <3> QED BY <3>1, <3>2 DEF PhaseOf, Live
  <2> QED BY <2>1, <2>2
<1>3. ASSUME NEW g \in Gens, InstallCancel(g) PROVE PhaseOf(h)'
    BY <1>3 DEF InstallCancel, Advance, PhaseOf, Live, chanVars, TypeOK
<1>4. ASSUME NEW g \in Gens, StartChannels(g) PROVE PhaseOf(h)'
  <2>1. CASE h = g
      BY <1>4, <2>1 DEF StartChannels, Advance, PhaseOf, Live, TypeOK
  <2>2. CASE h # g
      BY <1>4, <2>2 DEF StartChannels, Advance, PhaseOf, Live, TypeOK
  <2> QED BY <2>1, <2>2
<1>5. ASSUME NEW g \in Gens, SetupFails(g) PROVE PhaseOf(h)'
    BY <1>5 DEF SetupFails, Advance, Verdict, PhaseOf, Live, chanVars, TypeOK
<1>6. ASSUME NEW g \in Gens, Judge(g) PROVE PhaseOf(h)'
  <2>1. /\ mpc[g] = "waiting" /\ mpc' = [mpc EXCEPT ![g] = "judged"]
        /\ \A c \in Chans : cpc[g][c] \in {"ok", "failed"}
        /\ UNCHANGED <<current, status, cpc, buf, stored>>
      BY <1>6 DEF Judge, Advance, chanVars
  <2>2. CASE h # g
      BY <1>6, <2>1, <2>2 DEF Judge, PhaseOf, Live, TypeOK
  <2>3. CASE h = g
    <3>1. ~Live(g)'
        BY <2>1 DEF Live
    <3>2. ASSUME verdict'[g] = "success"
          PROVE  \A r \in Rows : stored'[g][r] = 1
      <4>1. \A c \in Chans : cpc[g][c] = "ok"
        <5>1. verdict'[g] = Verdict(g, \E c \in Chans : cpc[g][c] = "failed")
            BY <1>6 DEF Judge, TypeOK
        <5>2. ~\E c \in Chans : cpc[g][c] = "failed"
            BY <3>2, <5>1 DEF Verdict
        <5> QED BY <2>1, <5>2
      <4>2. ASSUME NEW r \in Rows PROVE stored'[g][r] = 1
        <5>1. PICK c \in Chans : r \in Part[c]
            BY PartAssumption
        <5>2. RowsOf(g, c)
            BY DEF RowsOK
        <5> QED BY <2>1, <4>1, <5>1, <5>2 DEF RowsOf
      <4> QED BY <4>2
    <3>3. /\ mpc'[g] = "judged" /\ current' = g /\ status'[g] = "running"
        BY <2>1, <2>3 DEF PhaseOf, TypeOK
    <3> QED BY <2>3, <3>1, <3>2, <3>3 DEF PhaseOf
  <2> QED BY <2>2, <2>3
<1>7. ASSUME NEW g \in Gens, SetStatus(g) PROVE PhaseOf(h)'
  <2>1. CASE h = g
    <3>1. /\ mpc[g] = "judged" /\ mpc'[g] = "off" /\ status'[g] = verdict[g]
          /\ cpc' = cpc /\ stored' = stored /\ verdict[g] \in Ended
        BY <1>7 DEF SetStatus, Advance, chanVars, TypeOK
    <3> QED BY <2>1, <3>1 DEF PhaseOf, Live, Ended
  <2>2. CASE h # g
      BY <1>7, <2>2 DEF SetStatus, Advance, PhaseOf, Live, chanVars, TypeOK
  <2> QED BY <2>1, <2>2
<1>8. ASSUME NEW g \in Gens, NEW c \in Chans, Channel(g, c) PROVE PhaseOf(h)'
  <2>1. UNCHANGED taskVars
      BY <1>8 DEF Channel, ReadRow, EndOfRows, Write, Commit, Count, ChannelFails,
                  CommitUnknown
  <2>2. Live(g)
      BY <1>8 DEF Channel, ReadRow, EndOfRows, Write, Commit, Count, ChannelFails,
                  CommitUnknown, Step, Live
  <2>3. mpc[g] = "waiting" /\ status[g] = "running"
      BY <2>2 DEF PhasesOK, PhaseOf
  <2>4. CASE h = g
      BY <2>1, <2>3, <2>4 DEF taskVars, PhaseOf
  <2>5. CASE h # g
    <3>1. \A d \in Chans : cpc'[h][d] = cpc[h][d]
        BY <1>8, <2>5 DEF Channel, ReadRow, EndOfRows, Write, Commit, Count,
                         ChannelFails, CommitUnknown, Step, TypeOK
    <3>2. \A d \in Chans : buf'[h][d] = buf[h][d]
        BY <1>8, <2>5 DEF Channel, ReadRow, EndOfRows, Write, Commit, Count,
                         ChannelFails, CommitUnknown, TypeOK
    <3>3. stored'[h] = stored[h]
      <4>1. CASE Apply(g, c)
          BY <2>5, <4>1, ApplyFact
      <4>2. CASE stored' = stored
          BY <4>2
      <4> QED BY <1>8, <4>1, <4>2 DEF Channel, ReadRow, EndOfRows, Write, Commit, Count,
                                     ChannelFails, CommitUnknown
    <3> QED BY <2>1, <3>1, <3>2, <3>3 DEF taskVars, PhaseOf, Live
  <2> QED BY <2>4, <2>5
<1>9. CASE Crash
    BY <1>9 DEF Crash, PhaseOf, Live
<1> QED BY <1>1, <1>2, <1>3, <1>4, <1>5, <1>6, <1>7, <1>8, <1>9
        DEF Next, Execute, Stop, FindTask, StopTooLate, StopNothing, TakeCancel,
            CallCancel, chanVars, vars, taskVars

(* The invariant of the tasks of one run_id.                                *)
THEOREM IndInvHolds == Spec => []IndInv
<1>1. Init => IndInv
  <2> SUFFICES ASSUME Init PROVE IndInv
      OBVIOUS
  <2>1. TypeOK
      BY RunsAssumption DEF Init, TypeOK, Gens, Ended, ChanPCs
  <2>2. /\ \A g \in Gens : mpc[g] = "off" /\ status[g] = "none"
        /\ \A g \in Gens, c \in Chans :
             cpc[g][c] = "off" /\ todo[g][c] = {} /\ buf[g][c] = {}
        /\ \A g \in Gens, r \in Rows : stored[g][r] = 0
      BY DEF Init
  <2>3. RowsOK
      BY <2>2, PartAssumption DEF RowsOK, RowsOf
  <2>4. PhasesOK
      BY <2>2 DEF PhasesOK, PhaseOf, Live
  <2> QED BY <2>1, <2>3, <2>4 DEF IndInv
<1>2. IndInv /\ [Next]_vars => IndInv'
    BY TypeStep, RowsStep, PhasesStep DEF IndInv
<1> QED BY <1>1, <1>2, PTL DEF Spec

(* A task is reported as success only with every source row committed, and    *)
(* each only once.                                                           *)
THEOREM SuccessIsCompleteHolds == Spec => []SuccessIsComplete
<1>1. IndInv => SuccessIsComplete
    BY DEF IndInv, PhasesOK, PhaseOf, SuccessIsComplete
<1> QED BY <1>1, IndInvHolds, PTL

(* No task commits a row twice.                                              *)
THEOREM OnceEachHolds == Spec => []OnceEach
<1>1. IndInv => OnceEach
  <2> SUFFICES ASSUME IndInv, NEW g \in Gens, NEW r \in Rows
               PROVE  stored[g][r] <= 1
      BY DEF OnceEach
  <2>1. PICK c \in Chans : r \in Part[c]
      BY PartAssumption
  <2> QED BY <2>1 DEF IndInv, RowsOK, RowsOf
<1> QED BY <1>1, IndInvHolds, PTL

(* Only the registered, running task has goroutines at work on the tables.    *)
THEOREM OnlyCurrentLiveHolds == Spec => []OnlyCurrentLive
<1>1. IndInv => OnlyCurrentLive
    BY DEF IndInv, PhasesOK, PhaseOf, OnlyCurrentLive
<1> QED BY <1>1, IndInvHolds, PTL

(* At a batch boundary exactly the rows read since are not committed.         *)
THEOREM WholeBatchesHolds == Spec => []WholeBatches
<1>1. IndInv => WholeBatches
  <2> SUFFICES ASSUME IndInv, NEW g \in Gens, NEW c \in Chans,
                      cpc[g][c] \in {"read", "begin", "ok"}
               PROVE  {r \in Part[c] : stored[g][r] = 0} = todo[g][c] \cup buf[g][c]
      BY DEF WholeBatches
  <2> QED BY DEF IndInv, RowsOK, RowsOf
<1> QED BY <1>1, IndInvHolds, PTL

(* What a client has seen as the end of a task is its end.                   *)
THEOREM EndIsFinalHolds == Spec => EndIsFinal
<1>1. IndInv /\ [Next]_vars =>
        [\A g \in Gens :
           status[g] \in Ended => status'[g] \in {status[g], "lost"}]_vars
  <2> SUFFICES ASSUME IndInv, Next, NEW g \in Gens, status[g] \in Ended
               PROVE  status'[g] \in {status[g], "lost"}
      OBVIOUS
  <2>1. status[g] # "running" /\ status[g] # "none" /\ mpc[g] # "judged"
      BY DEF IndInv, PhasesOK, PhaseOf, Ended
  <2>2. CASE UNCHANGED status
      BY <2>2
  <2>3. ASSUME NEW h \in Gens, Run(h) \/ SetStatus(h)
        PROVE  status'[g] \in {status[g], "lost"}
      BY <2>1, <2>3 DEF Run, SetStatus, Advance, IndInv, TypeOK
  <2>4. CASE Crash
      BY <2>1, <2>4 DEF Crash
  <2>5. ASSUME NEW h \in Gens, Execute(h)
        PROVE  status'[g] \in {status[g], "lost"}
    <3>1. CASE InstallCancel(h) \/ StartChannels(h) \/ SetupFails(h) \/ Judge(h)
      <4>1. UNCHANGED status
          BY <3>1 DEF InstallCancel, StartChannels, SetupFails, Judge, taskVars
      <4> QED BY <2>2, <4>1
    <3> QED BY <2>3, <2>5, <3>1 DEF Execute
  <2>6. ASSUME NEW h \in Gens, NEW c \in Chans, Channel(h, c)
        PROVE  UNCHANGED status
      BY <2>6 DEF Channel, ReadRow, EndOfRows, Write, Commit, Count, ChannelFails,
                  CommitUnknown, taskVars
  <2>7. ASSUME NEW s \in Stops, Stop(s)
        PROVE  UNCHANGED status
      BY <2>7 DEF Stop, FindTask, StopTooLate, StopNothing, TakeCancel, CallCancel, taskVars
  <2> QED BY <2>2, <2>3, <2>4, <2>5, <2>6, <2>7 DEF Next
<1> QED BY <1>1, IndInvHolds, PTL DEF Spec, EndIsFinal

-----------------------------------------------------------------------------
\* The counters.

Buffered(g) == UNION {buf[g][c] : c \in Chans}

\* A row is counted as read once it is in a buffer or stored, as written once it
\* is stored and has left its buffer; only between a commit and its count is a
\* stored row in a buffer, unless something fails.
CountsOf(g) ==
  /\ nwritten[g] = Cardinality(StoredRows(g) \ Buffered(g))
  /\ nread[g] = Cardinality(StoredRows(g) \cup Buffered(g))
  /\ faults = 0 => \A c \in Chans : cpc[g][c] = "count" \/ buf[g][c] \cap StoredRows(g) = {}
  /\ (mpc[g] = "judged" /\ verdict[g] = "success") \/ status[g] = "success" =>
       Buffered(g) = {}

CountsInv == \A g \in Gens : CountsOf(g)

(* Rows and buffers are finite.                                             *)
LEMMA FiniteFacts ==
  ASSUME TypeOK
  PROVE  \A g \in Gens : /\ StoredRows(g) \subseteq Rows /\ Buffered(g) \subseteq Rows
                         /\ \A c \in Chans : buf[g][c] \subseteq Rows
BY DEF TypeOK, StoredRows, Buffered

LEMMA FiniteRows == ASSUME NEW S, S \subseteq Rows
                    PROVE  IsFiniteSet(S) /\ Cardinality(S) \in Nat
BY RowsAssumption, FS_Subset, FS_CardinalityType

LEMMA RowsApart ==
  ASSUME NEW S, NEW T, S \subseteq Rows, T \subseteq Rows, S \cap T = {}
  PROVE  Cardinality(S \cup T) = Cardinality(S) + Cardinality(T)
<1>1. /\ IsFiniteSet(S) /\ IsFiniteSet(T)
      /\ Cardinality(S) \in Nat /\ Cardinality(T) \in Nat
    BY FiniteRows
<1>2. Cardinality(S \cup T) = Cardinality(S) + Cardinality(T) - Cardinality(S \cap T)
    BY <1>1, FS_Union
<1>3. Cardinality(S \cap T) = 0
    BY FS_EmptySet
<1> QED BY <1>1, <1>2, <1>3

(* Rows of one range are not in the buffer of another one.                  *)
LEMMA BuffersApart ==
  ASSUME IndInv, NEW g \in Gens, NEW c \in Chans, NEW d \in Chans, c # d
  PROVE  buf[g][d] \cap (buf[g][c] \cup todo[g][c]) = {}
BY PartAssumption DEF IndInv, RowsOK, RowsOf

(* A task whose rows and counters a step leaves alone keeps its counts, as   *)
(* long as no range leaves the place between commit and count unharmed.      *)
LEMMA CountsStay ==
  ASSUME TypeOK, NEW g \in Gens, CountsOf(g),
         stored'[g] = stored[g], buf'[g] = buf[g],
         nread'[g] = nread[g], nwritten'[g] = nwritten[g],
         faults' = 0 => /\ faults = 0
                        /\ \A c \in Chans : cpc[g][c] = "count" => cpc'[g][c] = "count",
         (mpc'[g] = "judged" /\ verdict'[g] = "success") \/ status'[g] = "success" =>
           Buffered(g) = {}
  PROVE  CountsOf(g)'
<1>1. StoredRows(g)' = StoredRows(g) /\ Buffered(g)' = Buffered(g)
    BY DEF StoredRows, Buffered
<1> QED BY <1>1 DEF CountsOf

LEMMA CountsStep == IndInv /\ CountsInv /\ [Next]_vars => CountsInv'
<1> SUFFICES ASSUME IndInv, CountsInv, [Next]_vars, NEW h \in Gens PROVE CountsOf(h)'
    BY DEF CountsInv
<1>0. TypeOK /\ TypeOK' /\ RowsOK /\ PhasesOK /\ PhaseOf(h) /\ CountsOf(h)
    BY TypeStep DEF IndInv, PhasesOK, CountsInv
<1>f. Fault => faults' # 0
    BY <1>0 DEF Fault, TypeOK
<1>1. CASE UNCHANGED <<taskVars, chanVars, faults>>
    BY <1>0, <1>1, CountsStay DEF taskVars, chanVars, CountsOf
<1>2. ASSUME NEW g \in Gens, Execute(g) \/ Run(g) PROVE CountsOf(h)'
  <2>1. /\ UNCHANGED <<buf, nread, nwritten, stored>>
        /\ \A c \in Chans : cpc[h][c] = "count" => cpc'[h][c] = "count"
        /\ faults' = 0 => faults = 0
    <3>1. CASE ~StartChannels(g)
        BY <1>0, <1>f, <1>2, <3>1 DEF Execute, Run, InstallCancel, SetupFails, Judge, SetStatus, chanVars
    <3>2. CASE StartChannels(g)
      <4>1. \A c \in Chans : cpc[g][c] # "count"
          BY <1>0, <3>2 DEF StartChannels, Advance, PhasesOK, PhaseOf, Live
      <4> QED BY <1>0, <3>2, <4>1 DEF StartChannels, TypeOK
    <3> QED BY <3>1, <3>2
  <2>2. ASSUME (mpc'[h] = "judged" /\ verdict'[h] = "success") \/ status'[h] = "success"
        PROVE  Buffered(h) = {}
    <3>1. CASE Judge(g) /\ h = g /\ mpc'[h] = "judged" /\ verdict'[h] = "success"
      <4>1. \A c \in Chans : cpc[g][c] = "ok"
          BY <1>0, <3>1 DEF Judge, Verdict, TypeOK
      <4>2. \A c \in Chans : buf[g][c] = {}
          BY <1>0, <4>1 DEF RowsOK, RowsOf
      <4> QED BY <3>1, <4>2 DEF Buffered
    <3>2. CASE ~(Judge(g) /\ h = g /\ mpc'[h] = "judged" /\ verdict'[h] = "success")
      <4>1. (mpc[h] = "judged" /\ verdict[h] = "success") \/ status[h] = "success"
          BY <1>0, <1>2, <2>2, <3>2
          DEF Execute, Run, InstallCancel, StartChannels, SetupFails, Judge, SetStatus, Advance,
              Verdict, TypeOK
      <4> QED BY <1>0, <4>1 DEF CountsOf
    <3> QED BY <3>1, <3>2
  <2> QED BY <1>0, <2>1, <2>2, CountsStay
<1>3. CASE Crash
  <2>1. UNCHANGED <<buf, nread, nwritten, stored>> /\ faults' # 0
      BY <1>f, <1>3 DEF Crash
  <2>2. mpc'[h] = "off" /\ status'[h] # "success"
      BY <1>3 DEF Crash
  <2> QED BY <1>0, <2>1, <2>2, CountsStay
<1>4. ASSUME NEW s \in Stops, Stop(s) PROVE CountsOf(h)'
    BY <1>1, <1>4 DEF Stop, FindTask, StopTooLate, StopNothing, TakeCancel, CallCancel
<1>5. ASSUME NEW g \in Gens, NEW c \in Chans, Channel(g, c) PROVE CountsOf(h)'
  <2> DEFINE S == StoredRows(g)
             B == Buffered(g)
             own == buf[g][c]
  <2>0. /\ Live(g) /\ mpc[g] = "waiting" /\ status[g] = "running"
        /\ UNCHANGED taskVars /\ (faults' = 0 => faults = 0)
        /\ RowsOf(g, c) /\ CountsOf(g)
    <3>1. Live(g)
        BY <1>5 DEF Channel, ReadRow, EndOfRows, Write, Commit, Count, ChannelFails,
                    CommitUnknown, Step, Live
    <3>2. UNCHANGED taskVars /\ (faults' = 0 => faults = 0)
        BY <1>f, <1>5 DEF Channel, ReadRow, EndOfRows, Write, Commit, Count, ChannelFails,
                    CommitUnknown
    <3> QED BY <1>0, <3>1, <3>2 DEF PhasesOK, PhaseOf, RowsOK, CountsInv
  <2>1. /\ S \subseteq Rows /\ B \subseteq Rows /\ own \subseteq Rows /\ own \subseteq B
        /\ \A r \in Part[c] : r \in Rows
      BY <1>0, FiniteFacts, PartAssumption DEF Buffered
  <2>2. /\ nwritten[g] = Cardinality(S \ B) /\ nread[g] = Cardinality(S \cup B)
        /\ faults = 0 => \A d \in Chans : cpc[g][d] = "count" \/ buf[g][d] \cap S = {}
      BY <2>0 DEF CountsOf
  <2>3. ASSUME h = g,
               nwritten'[g] = Cardinality(StoredRows(g)' \ Buffered(g)'),
               nread'[g] = Cardinality(StoredRows(g)' \cup Buffered(g)'),
               faults' = 0 => \A d \in Chans :
                 cpc'[g][d] = "count" \/ buf'[g][d] \cap StoredRows(g)' = {}
        PROVE  CountsOf(h)'
      BY <2>0, <2>3 DEF CountsOf, taskVars
  <2>4. CASE ReadRow(g, c)
    <3>1. PICK r \in todo[g][c], to \in ChanPCs :
            /\ buf'  = [buf EXCEPT ![g][c] = @ \cup {r}]
            /\ Step(g, c, "read", to) /\ to \in {"read", "begin"}
        BY <2>4 DEF ReadRow, ChanPCs
    <3>2. stored' = stored /\ nwritten' = nwritten /\ nread' = [nread EXCEPT ![g] = @ + 1]
            /\ faults' = faults
        BY <2>4 DEF ReadRow
    <3>3. CASE h # g
      <4>1. /\ buf'[h] = buf[h] /\ nread'[h] = nread[h]
            /\ \A d \in Chans : cpc'[h][d] = cpc[h][d]
          BY <1>0, <3>1, <3>2, <3>3, StepFact DEF TypeOK
      <4> QED BY <1>0, <2>0, <3>2, <4>1, CountsStay DEF CountsOf, taskVars
    <3>4. CASE h = g
      <4>1. /\ cpc[g][c] = "read" /\ cpc'[g][c] # "count"
            /\ \A d \in Chans \ {c} : cpc'[g][d] = cpc[g][d]
          BY <1>0, <3>1, StepFact
      <4>2. buf'[g][c] = own \cup {r} /\ \A d \in Chans \ {c} : buf'[g][d] = buf[g][d]
          BY <1>0, <3>1 DEF TypeOK
      <4>3. r \notin S /\ r \in Rows /\ r \notin own
          BY <2>0, <2>1, <3>1, <4>1 DEF RowsOf, StoredRows
      <4>4. r \notin B
        <5>1. \A d \in Chans \ {c} : r \notin buf[g][d]
            BY <3>1, BuffersApart
        <5> QED BY <4>3, <5>1 DEF Buffered
      <4>5. StoredRows(g)' = S /\ Buffered(g)' = B \cup {r}
          BY <3>2, <4>2 DEF StoredRows, Buffered
      <4>6. S \ (B \cup {r}) = S \ B /\ S \cup (B \cup {r}) = (S \cup B) \cup {r}
          BY <4>3
      <4>7. Cardinality((S \cup B) \cup {r}) = Cardinality(S \cup B) + 1
        <5>1. IsFiniteSet(S \cup B)
            BY <2>1, FiniteRows
        <5> QED BY <4>3, <4>4, <5>1, FS_AddElement
      <4>8. nread'[g] = nread[g] + 1
          BY <1>0, <3>2 DEF TypeOK
      <4>9. \A d \in Chans : buf'[g][d] \cap S = buf[g][d] \cap S
          BY <4>2, <4>3
      <4> HIDE DEF S, B, own
      <4>10. nwritten'[g] = Cardinality(StoredRows(g)' \ Buffered(g)')
          BY <2>2, <3>2, <4>5, <4>6
      <4>11. nread'[g] = Cardinality(StoredRows(g)' \cup Buffered(g)')
          BY <2>2, <4>5, <4>6, <4>7, <4>8
      <4>12. faults' = 0 => \A d \in Chans :
               cpc'[g][d] = "count" \/ buf'[g][d] \cap StoredRows(g)' = {}
          BY <2>2, <3>2, <4>1, <4>5, <4>9
      <4> QED BY <2>3, <3>4, <4>10, <4>11, <4>12
    <3> QED BY <3>3, <3>4
  <2>5. CASE EndOfRows(g, c) \/ Write(g, c) \/ ChannelFails(g, c)
    <3>1. UNCHANGED <<buf, stored, nread, nwritten>>
        BY <2>5 DEF EndOfRows, Write, ChannelFails
    <3>2. PICK to : cpc' = [cpc EXCEPT ![g][c] = to] /\ cpc[g][c] # "count"
        BY <2>5 DEF EndOfRows, Write, ChannelFails, Step
    <3>3. \A d \in Chans : cpc[h][d] = "count" => cpc'[h][d] = "count"
        BY <1>0, <3>2 DEF TypeOK
    <3> QED BY <1>0, <2>0, <3>1, <3>3, CountsStay DEF CountsOf, taskVars
  <2>6. CASE Commit(g, c) \/ CommitUnknown(g, c)
    <3>1. /\ buf' = buf /\ nread' = nread /\ nwritten' = nwritten /\ Apply(g, c)
          /\ cpc[g][c] = "commit"
        BY <2>6 DEF Commit, CommitUnknown, Step
    <3>2. /\ \A d \in Chans : (h # g \/ d # c) => cpc'[h][d] = cpc[h][d]
          /\ faults' = 0 => cpc'[g][c] = "count"
      <4>1. "count" \in ChanPCs /\ "failed" \in ChanPCs
          BY DEF ChanPCs
      <4>2. CASE Commit(g, c)
          BY <1>0, <4>1, <4>2, StepFact DEF Commit
      <4>3. CASE CommitUnknown(g, c)
          BY <1>0, <1>f, <4>1, <4>3, StepFact DEF CommitUnknown
      <4> QED BY <2>6, <4>2, <4>3
    <3>3. /\ \A r \in Rows : stored'[g][r] =
               IF r \in own THEN stored[g][r] + 1 ELSE stored[g][r]
          /\ h # g => stored'[h] = stored[h]
        BY <1>0, <3>1, ApplyFact
    <3>4. CASE h # g
        BY <1>0, <2>0, <3>1, <3>2, <3>3, <3>4, CountsStay DEF CountsOf, taskVars
    <3>5. CASE h = g
      <4>1. StoredRows(g)' = S \cup own
        <5>1. \A r \in Rows : stored[g][r] \in Nat
            BY <1>0 DEF TypeOK
        <5>2. \A r \in Rows : stored'[g][r] # 0 <=> r \in own \/ stored[g][r] # 0
            BY <3>3, <5>1
        <5> QED BY <2>1, <5>2 DEF StoredRows
      <4>2. Buffered(g)' = B
          BY <3>1 DEF Buffered
      <4>3. (S \cup own) \ B = S \ B /\ (S \cup own) \cup B = S \cup B
          BY <2>1
      <4>4. \A d \in Chans \ {c} : buf[g][d] \cap own = {}
          BY BuffersApart
      <4> HIDE DEF S, B, own
      <4>5. nwritten'[g] = Cardinality(StoredRows(g)' \ Buffered(g)')
            /\ nread'[g] = Cardinality(StoredRows(g)' \cup Buffered(g)')
          BY <2>2, <3>1, <4>1, <4>2, <4>3
      <4>6. ASSUME faults' = 0, NEW d \in Chans
            PROVE  cpc'[g][d] = "count" \/ buf'[g][d] \cap StoredRows(g)' = {}
        <5>1. CASE d = c
            BY <3>2, <4>6, <5>1
        <5>2. CASE d # c
            BY <2>0, <2>2, <3>1, <3>2, <3>5, <4>1, <4>4, <4>6, <5>2
        <5> QED BY <5>1, <5>2
      <4> QED BY <2>3, <3>5, <4>5, <4>6
    <3> QED BY <3>4, <3>5
  <2>7. CASE Count(g, c)
    <3>1. /\ stored' = stored /\ nread' = nread /\ faults' = faults
          /\ nwritten' = [nwritten EXCEPT ![g] = @ + Cardinality(own)]
          /\ buf' = [buf EXCEPT ![g][c] = {}]
          /\ Step(g, c, "count", "read") /\ "read" \in ChanPCs
        BY <2>7 DEF Count, ChanPCs
    <3>2. /\ cpc[g][c] = "count" /\ cpc'[g][c] = "read"
          /\ \A d \in Chans : (h # g \/ d # c) => cpc'[h][d] = cpc[h][d]
        BY <1>0, <3>1, StepFact
    <3>3. CASE h # g
      <4>1. buf'[h] = buf[h] /\ nwritten'[h] = nwritten[h]
          BY <1>0, <3>1, <3>3 DEF TypeOK
      <4> QED BY <1>0, <2>0, <3>1, <3>2, <3>3, <4>1, CountsStay DEF CountsOf, taskVars
    <3>4. CASE h = g
      <4>1. buf'[g][c] = {} /\ \A d \in Chans \ {c} : buf'[g][d] = buf[g][d]
          BY <1>0, <3>1 DEF TypeOK
      <4>2. own \subseteq S
          BY <2>0, <2>1, <3>2 DEF RowsOf, StoredRows
      <4>3. \A d \in Chans \ {c} : buf[g][d] \cap own = {}
          BY BuffersApart
      <4>4. StoredRows(g)' = S
          BY <3>1 DEF StoredRows
      <4>5. Buffered(g)' = B \ own
          BY <4>1, <4>3 DEF Buffered
      <4>6. /\ S \ (B \ own) = (S \ B) \cup own /\ (S \ B) \cap own = {}
            /\ S \cup (B \ own) = S \cup B
          BY <2>1, <4>2
      <4>7. Cardinality((S \ B) \cup own) = Cardinality(S \ B) + Cardinality(own)
        <5>1. S \ B \subseteq Rows
            BY <2>1
        <5> QED BY <2>1, <4>6, <5>1, RowsApart
      <4>8. nwritten'[g] = nwritten[g] + Cardinality(own)
          BY <1>0, <3>1 DEF TypeOK
      <4> HIDE DEF S, B, own
      <4>9. nwritten'[g] = Cardinality(StoredRows(g)' \ Buffered(g)')
            /\ nread'[g] = Cardinality(StoredRows(g)' \cup Buffered(g)')
          BY <2>2, <3>1, <4>4, <4>5, <4>6, <4>7, <4>8
      <4>10. ASSUME faults' = 0, NEW d \in Chans
             PROVE  cpc'[g][d] = "count" \/ buf'[g][d] \cap StoredRows(g)' = {}
          BY <2>0, <2>2, <3>2, <3>4, <4>1, <4>4, <4>10
      <4> QED BY <2>3, <3>4, <4>9, <4>10
    <3> QED BY <3>3, <3>4
  <2> QED BY <1>5, <2>4, <2>5, <2>6, <2>7 DEF Channel
<1>6. CASE UNCHANGED vars
    BY <1>1, <1>6 DEF vars, taskVars, chanVars
<1> QED BY <1>2, <1>3, <1>4, <1>5, <1>6 DEF Next

(* rowsRead and rowsWritten are numbers of rows.                            *)
THEOREM CountsInvHolds == Spec => []CountsInv
<1>1. Init => CountsInv
  <2> SUFFICES ASSUME Init, NEW g \in Gens PROVE CountsOf(g)
      BY DEF CountsInv
  <2>1. StoredRows(g) = {} /\ Buffered(g) = {}
      BY DEF Init, StoredRows, Buffered
  <2> QED BY <2>1, FS_EmptySet DEF Init, CountsOf
<1> QED BY <1>1, CountsStep, IndInvHolds, PTL DEF Spec

(* The counters shown for a migration never claim a row that is not in the   *)
(* target, and are exact at the end if no call failed, and after a success.   *)
THEOREM CountsHonestHolds == Spec => []CountsHonest
<1>1. IndInv /\ CountsInv => CountsHonest
  <2> SUFFICES ASSUME IndInv, CountsInv, NEW g \in Gens
               PROVE  /\ nwritten[g] <= Committed(g) /\ Committed(g) <= nread[g]
                      /\ status[g] \in Ended /\ faults = 0 => nwritten[g] = Committed(g)
                      /\ status[g] = "success" =>
                           nwritten[g] = Cardinality(Rows) /\ nread[g] = nwritten[g]
      BY DEF CountsHonest
  <2> DEFINE S == StoredRows(g)
             B == Buffered(g)
  <2>1. S \subseteq Rows /\ B \subseteq Rows
      BY FiniteFacts DEF IndInv
  <2>2. IsFiniteSet(S) /\ IsFiniteSet(S \cup B)
      BY <2>1, FiniteRows
  <2>3. Cardinality(S \ B) <= Cardinality(S) /\ Cardinality(S) <= Cardinality(S \cup B)
      BY <2>2, FS_Subset
  <2>4. ASSUME status[g] \in Ended, faults = 0 PROVE S \ B = S
    <3>1. ~Live(g)
        BY <2>4 DEF IndInv, PhasesOK, PhaseOf, Ended
    <3>2. \A c \in Chans : buf[g][c] \cap S = {}
        BY <2>4, <3>1 DEF CountsInv, CountsOf, Live
    <3> QED BY <3>2 DEF Buffered
  <2>5. ASSUME status[g] = "success" PROVE S \ B = Rows /\ S \cup B = Rows
    <3>1. B = {} /\ \A r \in Rows : stored[g][r] = 1
        BY <2>5 DEF CountsInv, CountsOf, IndInv, PhasesOK, PhaseOf
    <3> QED BY <3>1 DEF StoredRows
  <2>6. nwritten[g] = Cardinality(S \ B) /\ nread[g] = Cardinality(S \cup B)
      BY DEF CountsInv, CountsOf
  <2> HIDE DEF S, B
  <2>7. Committed(g) = Cardinality(S)
      BY DEF S, Committed
  <2> QED BY <2>3, <2>4, <2>5, <2>6, <2>7
<1> QED BY <1>1, IndInvHolds, CountsInvHolds, PTL
=============================================================================
