--------------------------- MODULE LockFileProofs ---------------------------
(***************************************************************************)
(* What holds of the file of positions for any number of processes, lines  *)
(* and positions, although no process locks the file.                      *)
(***************************************************************************)
EXTENDS LockFile, FiniteSetTheorems, TLAPS

AtWork(s) == pc[s] \in {"mark", "search", "report", "write"}

\* A process stands at a line it can have taken up, behind lines that are not
\* available, and knows no more of its position than the search has told it.
SolverInv(s) ==
  /\ AtWork(s) => offset[s] \in Line /\ position[offset[s]].kind # "garbled"
  /\ pc[s] \in {"search", "report", "write"} => position[offset[s]].kind # "refused"
  /\ pc[s] \in {"report", "write"} =>
       score[s] = IF position[offset[s]].kind = "hard" THEN "open"
                  ELSE position[offset[s]].winner
  /\ pc[s] = "write" => position[offset[s]].kind = "good"
  /\ s \in died => pc[s] = "ended"
  /\ \A k \in 1 .. (offset[s] - 1) : file[k] # "A" /\ position[k].kind # "garbled"

IInv ==
  /\ TypeOK
  /\ \A s \in Solver : SolverInv(s)
  /\ FileIsRight
  /\ \A l \in Line : file[l] # "A" => position[l].kind # "garbled"
  /\ TakenInOrder
  /\ MarkHasACause

-----------------------------------------------------------------------------
LEMMA InitEstablishes == Init => IInv
BY LockFileAssumption
   DEF Init, IInv, TypeOK, SolverInv, AtWork, FileIsRight, TakenInOrder, MarkHasACause,
       Line, Player, Nobody

\* What a line can be found to hold.
LEMMA PositionType ==
  ASSUME TypeOK, NEW l \in Line
  PROVE  position[l].kind \in Kinds /\ position[l].winner \in Player
BY LockFileAssumption DEF TypeOK

\* A step that leaves the file and the offsets alone keeps what is said of lines.
LEMMA FileUnchanged ==
  ASSUME IInv, UNCHANGED <<position, file, offset>>,
         \A s \in Solver : pc[s] \in {"search", "report", "write"} \/ s \in died =>
           \/ pc'[s] \in {"search", "report", "write"} \/ s \in died'
           \/ position[offset[s]].kind # "good"
  PROVE  FileIsRight' /\ TakenInOrder' /\ MarkHasACause'
         /\ (\A l \in Line : file[l] # "A" => position[l].kind # "garbled")'
<1>1. FileIsRight' /\ TakenInOrder'
      /\ (\A l \in Line : file[l] # "A" => position[l].kind # "garbled")'
  BY DEF IInv, FileIsRight, TakenInOrder
<1>2. MarkHasACause'
  <2> SUFFICES ASSUME NEW l \in Line, file'[l] = "W", position'[l].kind = "good"
               PROVE  \E s \in Solver : /\ offset'[s] = l
                                        /\ pc'[s] \in {"search", "report", "write"} \/ s \in died'
    BY DEF MarkHasACause
  <2>1. PICK s \in Solver : /\ offset[s] = l
                            /\ pc[s] \in {"search", "report", "write"} \/ s \in died
    BY DEF IInv, MarkHasACause
  <2> QED
    BY <2>1
<1> QED
  BY <1>1, <1>2

-----------------------------------------------------------------------------
LEMMA StartKeeps == ASSUME IInv, NEW s \in Solver, Start(s) PROVE IInv'
<1>1. TypeOK'
  BY DEF IInv, TypeOK, Start, GoTo
<1>2. ASSUME NEW t \in Solver PROVE SolverInv(t)'
  BY <1>2 DEF IInv, TypeOK, SolverInv, AtWork, Start, GoTo
<1>3. FileIsRight' /\ TakenInOrder' /\ MarkHasACause'
      /\ (\A l \in Line : file[l] # "A" => position[l].kind # "garbled")'
  <2>1. \A t \in Solver : pc[t] \in {"search", "report", "write"} =>
          pc'[t] \in {"search", "report", "write"}
    BY DEF IInv, TypeOK, Start, GoTo
  <2> QED
    BY <2>1, FileUnchanged DEF Start
<1> QED
  BY <1>1, <1>2, <1>3 DEF IInv

(* The line read may be available, garbled, taken up or missing; only in the
   third case does the process move on, and the line stays passed for good.   *)
LEMMA ReadKeeps == ASSUME IInv, NEW s \in Solver, Read(s) PROVE IInv'
<1>1. offset[s] \in 1 .. (NumLines + 1) /\ NumLines \in Nat /\ pc[s] = "read" /\ s \notin died
  BY LockFileAssumption DEF IInv, TypeOK, SolverInv, Read
<1>2. /\ UNCHANGED <<position, file, score, printed, died>>
      /\ \A t \in Solver \ {s} : pc'[t] = pc[t] /\ offset'[t] = offset[t]
      /\ pc' \in [Solver -> {"new", "read", "mark", "search", "report", "write", "ended"}]
      /\ pc'[s] \in {"read", "mark", "ended"}
      /\ offset' \in [Solver -> 1 .. (NumLines + 1)]
  <2>1. UNCHANGED <<position, file, score, printed, died>>
    BY DEF Read
  <2>2. PICK label \in {"read", "mark", "ended"} : pc' = [pc EXCEPT ![s] = label]
    <3>1. pc' = [pc EXCEPT ![s] = "read"] \/ pc' = [pc EXCEPT ![s] = "mark"]
          \/ pc' = [pc EXCEPT ![s] = "ended"]
      <4>1. pc = [pc EXCEPT ![s] = "read"]
        BY <1>1 DEF IInv, TypeOK
      <4> QED
        BY <4>1 DEF Read, GoTo
    <3> QED
      BY <3>1
  <2>3. offset' = offset \/ (offset[s] \in Line /\ offset' = [offset EXCEPT ![s] = @ + 1])
    BY DEF Read
  <2>4. offset' \in [Solver -> 1 .. (NumLines + 1)]
        /\ \A t \in Solver \ {s} : offset'[t] = offset[t]
    <3>1. offset \in [Solver -> 1 .. (NumLines + 1)]
      BY DEF IInv, TypeOK
    <3>2. CASE offset' = offset
      BY <3>1, <3>2
    <3>3. CASE offset[s] \in Line /\ offset' = [offset EXCEPT ![s] = @ + 1]
      <4>1. offset[s] + 1 \in 1 .. (NumLines + 1)
        BY <1>1, <3>3 DEF Line
      <4> QED
        BY <3>1, <3>3, <4>1
    <3> QED
      BY <2>3, <3>2, <3>3
  <2>5. pc' \in [Solver -> {"new", "read", "mark", "search", "report", "write", "ended"}]
        /\ pc'[s] \in {"read", "mark", "ended"} /\ \A t \in Solver \ {s} : pc'[t] = pc[t]
    BY <2>2 DEF IInv, TypeOK
  <2> QED
    BY <2>1, <2>4, <2>5
<1>3. TypeOK'
  BY <1>2 DEF IInv, TypeOK
<1>4. /\ pc'[s] = "mark" => offset'[s] \in Line /\ position[offset'[s]].kind # "garbled"
      /\ \A k \in 1 .. (offset'[s] - 1) : k \in 1 .. (offset[s] - 1) \/ (k = offset[s] /\ k \in Line /\ file[k] # "A")
  BY <1>1 DEF IInv, TypeOK, Read, GoTo, Line
<1>5. ASSUME NEW t \in Solver PROVE SolverInv(t)'
  <2>1. CASE t = s
    BY <1>1, <1>2, <1>4, <2>1 DEF IInv, SolverInv, AtWork
  <2>2. CASE t # s
    <3>1. SolverInv(t) /\ pc'[t] = pc[t] /\ offset'[t] = offset[t]
      BY <1>2, <2>2 DEF IInv
    <3> QED
      BY <1>2, <3>1 DEF SolverInv, AtWork
  <2> QED
    BY <2>1, <2>2
<1>6. FileIsRight' /\ TakenInOrder' /\ (\A l \in Line : file[l] # "A" => position[l].kind # "garbled")'
  BY <1>2 DEF IInv, FileIsRight, TakenInOrder
<1>7. MarkHasACause'
  <2> SUFFICES ASSUME NEW l \in Line, file'[l] = "W", position'[l].kind = "good"
               PROVE  \E t \in Solver : /\ offset'[t] = l
                                        /\ pc'[t] \in {"search", "report", "write"} \/ t \in died'
    BY DEF MarkHasACause
  <2>1. PICK t \in Solver : /\ offset[t] = l
                            /\ pc[t] \in {"search", "report", "write"} \/ t \in died
    BY <1>2 DEF IInv, MarkHasACause
  <2> QED
    BY <1>1, <1>2, <2>1
<1> QED
  BY <1>3, <1>5, <1>6, <1>7 DEF IInv

(* The mark may replace one of another process or even a winner: the line is
   taken up again by the process that marks it.                               *)
LEMMA MarkKeeps == ASSUME IInv, NEW s \in Solver, Mark(s) PROVE IInv'
<1> DEFINE l0 == offset[s]
<1>1. /\ l0 \in Line /\ pc[s] = "mark" /\ position[l0].kind # "garbled" /\ s \notin died
      /\ \A k \in 1 .. (l0 - 1) : file[k] # "A" /\ position[k].kind # "garbled"
  BY DEF IInv, SolverInv, AtWork, Mark
<1>2. /\ UNCHANGED <<position, offset, score, printed, died>>
      /\ file' \in [Line -> Player \cup {"A", "W"}]
      /\ file'[l0] = "W" /\ \A l \in Line \ {l0} : file'[l] = file[l]
      /\ \A t \in Solver \ {s} : pc'[t] = pc[t]
      /\ pc'[s] = IF position[l0].kind = "refused" THEN "ended" ELSE "search"
      /\ pc' \in [Solver -> {"new", "read", "mark", "search", "report", "write", "ended"}]
  BY <1>1 DEF IInv, TypeOK, Mark, GoTo
<1> HIDE DEF l0
<1>3. TypeOK'
  BY <1>2 DEF IInv, TypeOK
<1>4. \A l \in Line : file[l] # "A" => file'[l] # "A"
  BY <1>2
<1>5. ASSUME NEW t \in Solver PROVE SolverInv(t)'
  <2>1. \A k \in 1 .. (offset[t] - 1) : k \in Line
    BY LockFileAssumption DEF IInv, TypeOK, Line
  <2>2. \A k \in 1 .. (offset'[t] - 1) : file'[k] # "A" /\ position'[k].kind # "garbled"
    BY <1>2, <1>4, <2>1 DEF IInv, SolverInv
  <2>3. CASE t = s
    BY <1>1, <1>2, <2>2, <2>3 DEF SolverInv, AtWork, l0
  <2>4. CASE t # s
    <3>1. SolverInv(t) /\ pc'[t] = pc[t]
      BY <1>2, <2>4 DEF IInv
    <3> QED
      BY <1>2, <2>2, <3>1 DEF SolverInv, AtWork
  <2> QED
    BY <2>3, <2>4
<1>6. FileIsRight'
  BY <1>2 DEF IInv, FileIsRight, Player
<1>7. (\A l \in Line : file[l] # "A" => position[l].kind # "garbled")'
  BY <1>1, <1>2 DEF IInv
<1>8. TakenInOrder'
  <2> SUFFICES ASSUME NEW l \in Line, file'[l] # "A", NEW k \in 1 .. (l - 1)
               PROVE  file'[k] # "A" /\ position'[k].kind # "garbled"
    BY DEF TakenInOrder
  <2>1. k \in Line
    BY LockFileAssumption DEF Line
  <2>2. file[k] # "A" /\ position[k].kind # "garbled"
    BY <1>1, <1>2 DEF IInv, TakenInOrder
  <2> QED
    BY <1>2, <1>4, <2>1, <2>2
<1>9. MarkHasACause'
  <2> SUFFICES ASSUME NEW l \in Line, file'[l] = "W", position'[l].kind = "good"
               PROVE  \E t \in Solver : /\ offset'[t] = l
                                        /\ pc'[t] \in {"search", "report", "write"} \/ t \in died'
    BY DEF MarkHasACause
  <2>1. CASE l = l0
    BY <1>2, <2>1 DEF l0
  <2>2. CASE l # l0
    <3>1. PICK t \in Solver : /\ offset[t] = l
                              /\ pc[t] \in {"search", "report", "write"} \/ t \in died
      BY <1>2, <2>2 DEF IInv, MarkHasACause
    <3> QED
      BY <1>1, <1>2, <2>2, <3>1
  <2> QED
    BY <2>1, <2>2
<1> QED
  BY <1>3, <1>5, <1>6, <1>7, <1>8, <1>9 DEF IInv

LEMMA SearchKeeps == ASSUME IInv, NEW s \in Solver, Search(s) PROVE IInv'
<1>1. offset[s] \in Line /\ pc[s] = "search" /\ s \notin died
  BY DEF IInv, SolverInv, AtWork, Search
<1>2. position[offset[s]].winner \in Player
  BY <1>1, PositionType DEF IInv
<1>3. TypeOK'
  BY <1>2 DEF IInv, TypeOK, Search, GoTo
<1>4. ASSUME NEW t \in Solver PROVE SolverInv(t)'
  BY <1>1, <1>4 DEF IInv, TypeOK, SolverInv, AtWork, Search, GoTo
<1>5. \A t \in Solver : pc[t] \in {"search", "report", "write"} =>
        pc'[t] \in {"search", "report", "write"}
  BY DEF IInv, TypeOK, Search, GoTo
<1> QED
  BY <1>3, <1>4, <1>5, FileUnchanged DEF IInv, Search

LEMMA ReportKeeps == ASSUME IInv, NEW s \in Solver, Report(s) PROVE IInv'
<1>1. offset[s] \in Line /\ pc[s] = "report" /\ s \notin died
  BY DEF IInv, SolverInv, AtWork, Report
<1>2. position[offset[s]].kind \in Kinds /\ position[offset[s]].winner \in Player
      /\ position[offset[s]].mover \in Player
  BY <1>1, LockFileAssumption DEF IInv, TypeOK
<1>3. TypeOK'
  BY <1>2 DEF IInv, TypeOK, Report, GoTo, Other, Player
<1>4. /\ pc'[s] = "write" => position[offset[s]].kind = "good"
      /\ pc'[s] = "ended" => position[offset[s]].kind = "hard"
  BY <1>1, <1>2 DEF IInv, TypeOK, SolverInv, AtWork, Report, GoTo, Kinds, Player
<1>5. ASSUME NEW t \in Solver PROVE SolverInv(t)'
  BY <1>1, <1>4, <1>5 DEF IInv, TypeOK, SolverInv, AtWork, Report, GoTo
<1>6. \A t \in Solver : pc[t] \in {"search", "report", "write"} =>
        pc'[t] \in {"search", "report", "write"} \/ position[offset[t]].kind # "good"
  BY <1>4 DEF IInv, TypeOK, Report, GoTo
<1> QED
  BY <1>3, <1>5, <1>6, FileUnchanged DEF IInv, Report

(* The winner replaces whatever is on the line by then; a process at the line
   that has written it leaves no mark behind that would need it.              *)
LEMMA WriteKeeps == ASSUME IInv, NEW s \in Solver, Write(s) PROVE IInv'
<1> DEFINE l0 == offset[s]
<1>1. /\ l0 \in Line /\ pc[s] = "write" /\ position[l0].kind = "good" /\ s \notin died
      /\ score[s] = position[l0].winner
      /\ \A k \in 1 .. (l0 - 1) : file[k] # "A" /\ position[k].kind # "garbled"
  BY DEF IInv, SolverInv, AtWork, Write
<1>2. position[l0].winner \in Player
  BY <1>1, PositionType DEF IInv
<1>3. /\ UNCHANGED <<position, offset, score, printed, died>>
      /\ file' \in [Line -> Player \cup {"A", "W"}]
      /\ file'[l0] = position[l0].winner /\ \A l \in Line \ {l0} : file'[l] = file[l]
      /\ \A t \in Solver \ {s} : pc'[t] = pc[t]
      /\ pc'[s] = "ended"
      /\ pc' \in [Solver -> {"new", "read", "mark", "search", "report", "write", "ended"}]
  BY <1>1, <1>2 DEF IInv, TypeOK, Write, GoTo
<1> HIDE DEF l0
<1>4. TypeOK'
  BY <1>3 DEF IInv, TypeOK
<1>5. \A l \in Line : file[l] # "A" => file'[l] # "A"
  BY <1>2, <1>3 DEF Player
<1>6. ASSUME NEW t \in Solver PROVE SolverInv(t)'
  <2>1. \A k \in 1 .. (offset[t] - 1) : k \in Line
    BY LockFileAssumption DEF IInv, TypeOK, Line
  <2>2. \A k \in 1 .. (offset'[t] - 1) : file'[k] # "A" /\ position'[k].kind # "garbled"
    BY <1>3, <1>5, <2>1 DEF IInv, SolverInv
  <2>3. CASE t = s
    BY <1>1, <1>3, <2>2, <2>3 DEF SolverInv, AtWork
  <2>4. CASE t # s
    <3>1. SolverInv(t) /\ pc'[t] = pc[t]
      BY <1>3, <2>4 DEF IInv
    <3> QED
      BY <1>3, <2>2, <3>1 DEF SolverInv, AtWork
  <2> QED
    BY <2>3, <2>4
<1>7. FileIsRight'
  BY <1>1, <1>3 DEF IInv, FileIsRight
<1>8. (\A l \in Line : file[l] # "A" => position[l].kind # "garbled")'
  BY <1>1, <1>3 DEF IInv
<1>9. TakenInOrder'
  <2> SUFFICES ASSUME NEW l \in Line, file'[l] # "A", NEW k \in 1 .. (l - 1)
               PROVE  file'[k] # "A" /\ position'[k].kind # "garbled"
    BY DEF TakenInOrder
  <2>1. k \in Line
    BY LockFileAssumption DEF Line
  <2>2. file[k] # "A" /\ position[k].kind # "garbled"
    BY <1>1, <1>3 DEF IInv, TakenInOrder
  <2> QED
    BY <1>3, <1>5, <2>1, <2>2
<1>10. MarkHasACause'
  <2> SUFFICES ASSUME NEW l \in Line, file'[l] = "W", position'[l].kind = "good"
               PROVE  \E t \in Solver : /\ offset'[t] = l
                                        /\ pc'[t] \in {"search", "report", "write"} \/ t \in died'
    BY DEF MarkHasACause
  <2>1. l # l0
    BY <1>2, <1>3 DEF Player
  <2>2. PICK t \in Solver : /\ offset[t] = l
                            /\ pc[t] \in {"search", "report", "write"} \/ t \in died
    BY <1>3, <2>1 DEF IInv, MarkHasACause
  <2> QED
    BY <1>1, <1>3, <2>1, <2>2 DEF l0
<1> QED
  BY <1>4, <1>6, <1>7, <1>8, <1>9, <1>10 DEF IInv

LEMMA DieKeeps == ASSUME IInv, NEW s \in Solver, Die(s) PROVE IInv'
<1>1. TypeOK'
  BY DEF IInv, TypeOK, Die, GoTo
<1>2. ASSUME NEW t \in Solver PROVE SolverInv(t)'
  BY <1>2 DEF IInv, TypeOK, SolverInv, AtWork, Die, GoTo
<1>3. \A t \in Solver : pc[t] \in {"search", "report", "write"} \/ t \in died =>
        pc'[t] \in {"search", "report", "write"} \/ t \in died'
  BY DEF IInv, TypeOK, Die, GoTo
<1> QED
  BY <1>1, <1>2, <1>3, FileUnchanged DEF IInv, Die

-----------------------------------------------------------------------------
LEMMA StepKeeps == IInv /\ [Next]_vars => IInv'
<1> SUFFICES ASSUME IInv, [Next]_vars PROVE IInv'
  OBVIOUS
<1>1. ASSUME NEW s \in Solver,
             Start(s) \/ Read(s) \/ Mark(s) \/ Search(s) \/ Report(s) \/ Write(s) \/ Die(s)
      PROVE  IInv'
  BY <1>1, StartKeeps, ReadKeeps, MarkKeeps, SearchKeeps, ReportKeeps, WriteKeeps, DieKeeps
<1>2. CASE UNCHANGED vars
  BY <1>2 DEF vars, IInv, TypeOK, SolverInv, AtWork, FileIsRight, TakenInOrder, MarkHasACause
<1> QED
  BY <1>1, <1>2 DEF Next

LEMMA Invariance == Spec => []IInv
BY InitEstablishes, StepKeeps, PTL DEF Spec

(* obsequi.cc:583: whatever other processes read, mark and write in between, a
   winner is written only over the position it was found for.                 *)
THEOREM LockFileIsRight == Spec => []FileIsRight
BY Invariance, PTL DEF IInv

(* obsequi.cc:618: positions are taken up in the order of the file, and none
   behind a garbled one is.                                                   *)
THEOREM LockFileInOrder == Spec => []TakenInOrder
BY Invariance, PTL DEF IInv

(* obsequi.cc:675: a position that can be solved stays marked only while it is
   searched or because a process died over it.                                *)
THEOREM LockFileMarks == Spec => []MarkHasACause
BY Invariance, PTL DEF IInv

-----------------------------------------------------------------------------
(* One process after the other.                                              *)

RunningOnes == {t \in Solver : Running(t)}

(* A process that runs alone finds its line as it has left it: available until
   it marks it, marked until it writes the winner.                            *)
Alone ==
  /\ IsFiniteSet(RunningOnes)
  /\ atOnce = 1 =>
       /\ \A s, t \in Solver : Running(s) /\ Running(t) => s = t
       /\ \A s \in Solver : pc[s] = "mark" => file[offset[s]] = "A"
       /\ \A s \in Solver : pc[s] \in {"search", "report", "write"} => file[offset[s]] = "W"

LEMMA AloneAtInit == Init => Alone
<1> SUFFICES ASSUME Init PROVE Alone
  OBVIOUS
<1>1. RunningOnes = {}
  BY DEF Init, RunningOnes, Running
<1> QED
  BY <1>1, FS_EmptySet DEF Alone, RunningOnes, Init

\* Only Start makes a process run.
LEMMA AloneWithoutStart ==
  ASSUME IInv, Alone, UNCHANGED atOnce, NEW s \in Solver, Running(s),
         \A t \in Solver \ {s} : pc'[t] = pc[t] /\ offset'[t] = offset[t],
         pc'[s] = "mark" => file'[offset'[s]] = "A",
         pc'[s] \in {"search", "report", "write"} => file'[offset'[s]] = "W"
  PROVE  Alone'
<1>1. \A t \in Solver : Running(t)' => Running(t)
  BY DEF Running
<1>2. IsFiniteSet(RunningOnes')
  <2>1. RunningOnes' \subseteq RunningOnes
    BY <1>1 DEF RunningOnes
  <2> QED
    BY <2>1, FS_Subset DEF Alone
<1>3. atOnce' = 1 => \A t, u \in Solver : Running(t)' /\ Running(u)' => t = u
  BY <1>1 DEF Alone
<1>4. atOnce' = 1 => \A t \in Solver \ {s} : pc'[t] \in {"new", "ended"}
  BY DEF Alone, Running
<1> QED
  BY <1>2, <1>3, <1>4 DEF Alone

LEMMA StartAlone ==
  ASSUME IInv, Alone, NEW s \in Solver, Start(s)
  PROVE  Alone'
<1>1. /\ pc[s] = "new" /\ Cardinality(RunningOnes) < atOnce
      /\ pc' = [pc EXCEPT ![s] = "read"]
      /\ pc \in [Solver -> {"new", "read", "mark", "search", "report", "write", "ended"}]
      /\ UNCHANGED <<atOnce, file, offset>>
  BY DEF IInv, TypeOK, Start, GoTo, RunningOnes
<1>2. RunningOnes' = RunningOnes \cup {s}
  BY <1>1 DEF RunningOnes, Running
<1>3. IsFiniteSet(RunningOnes')
  <2>1. IsFiniteSet(RunningOnes \cup {s})
    BY FS_AddElement DEF Alone
  <2> QED
    BY <1>2, <2>1
<1>4. atOnce = 1 => RunningOnes = {}
  <2>1. Cardinality(RunningOnes) \in Nat
    BY FS_CardinalityType DEF Alone
  <2> HIDE DEF RunningOnes
  <2>2. atOnce = 1 => Cardinality(RunningOnes) = 0
    BY <1>1, <2>1
  <2> QED
    BY <2>2, FS_EmptySet DEF Alone
<1>5. atOnce = 1 => \A t \in Solver : Running(t)' => t = s
  BY <1>2, <1>4 DEF RunningOnes
<1>6. atOnce = 1 => \A t \in Solver : pc'[t] \in {"new", "ended", "read"}
  BY <1>1, <1>5 DEF Running
<1> QED
  BY <1>1, <1>3, <1>5, <1>6 DEF Alone

LEMMA AloneKeeps == IInv /\ Alone /\ [Next]_vars => Alone'
<1> SUFFICES ASSUME IInv, Alone, [Next]_vars PROVE Alone'
  OBVIOUS
<1>1. ASSUME NEW s \in Solver, Start(s) PROVE Alone'
  BY <1>1, StartAlone
<1>2. ASSUME NEW s \in Solver, Read(s) PROVE Alone'
  <2>1. /\ UNCHANGED <<atOnce, file>> /\ Running(s)
        /\ \A t \in Solver \ {s} : pc'[t] = pc[t] /\ offset'[t] = offset[t]
    BY <1>2 DEF IInv, TypeOK, Read, GoTo, Running
  <2>2. /\ pc'[s] = "mark" => file'[offset'[s]] = "A"
        /\ pc'[s] \notin {"search", "report", "write"}
    BY <1>2 DEF IInv, TypeOK, Read, GoTo
  <2> QED
    BY <2>1, <2>2, AloneWithoutStart
<1>3. ASSUME NEW s \in Solver, Mark(s) PROVE Alone'
  <2>1. /\ UNCHANGED <<atOnce, offset>> /\ Running(s)
        /\ \A t \in Solver \ {s} : pc'[t] = pc[t]
        /\ pc'[s] \in {"search", "ended"}
    BY <1>3 DEF IInv, TypeOK, Mark, GoTo, Running
  <2>2. offset[s] \in Line
    BY <1>3 DEF IInv, SolverInv, AtWork, Mark
  <2>3. file'[offset'[s]] = "W"
    BY <1>3, <2>2 DEF IInv, TypeOK, Mark
  <2> QED
    BY <2>1, <2>3, AloneWithoutStart
<1>4. ASSUME NEW s \in Solver, Search(s) \/ Report(s) \/ Write(s) \/ Die(s) PROVE Alone'
  <2>1. /\ UNCHANGED <<atOnce, offset>> /\ Running(s)
        /\ \A t \in Solver \ {s} : pc'[t] = pc[t]
        /\ pc'[s] \in {"report", "write", "ended"}
        /\ pc'[s] # "ended" => pc[s] \in {"search", "report"} /\ file' = file
    BY <1>4 DEF IInv, TypeOK, Search, Report, Write, Die, GoTo, Running
  <2>2. CASE atOnce = 1
    BY <2>1, <2>2, AloneWithoutStart DEF Alone
  <2>3. CASE atOnce # 1
    <3>1. RunningOnes' \subseteq RunningOnes
      BY <2>1 DEF RunningOnes, Running
    <3> QED
      BY <2>1, <2>3, <3>1, FS_Subset DEF Alone
  <2> QED
    BY <2>2, <2>3
<1>5. CASE UNCHANGED vars
  BY <1>5 DEF vars, Alone, RunningOnes, Running
<1> QED
  BY <1>1, <1>2, <1>3, <1>4, <1>5 DEF Next

LEMMA AloneInvariance == Spec => [](IInv /\ Alone)
BY InitEstablishes, StepKeeps, AloneAtInit, AloneKeeps, PTL DEF Spec

LEMMA ListInit == Init => List!Init
BY DEF Init, List!Init, Status

LEMMA MarkIsTake ==
  ASSUME IInv, Alone, atOnce = 1, NEW s \in Solver, Mark(s)
  PROVE  List!Take(offset[s])
<1>1. PICK l \in Line : l = offset[s]
  BY DEF IInv, SolverInv, AtWork, Mark
<1>2. /\ file[l] = "A"
      /\ \A k \in 1 .. (l - 1) : file[k] # "A"
      /\ file \in [Line -> Player \cup {"A", "W"}]
      /\ file' = [file EXCEPT ![l] = "W"]
  BY <1>1 DEF IInv, TypeOK, SolverInv, AtWork, Alone, Mark
<1>3. \A k \in Line : k < l => Status(file[k]) # "open"
  BY <1>1, <1>2, LockFileAssumption DEF Line, Status
<1> QED
  BY <1>1, <1>2, <1>3 DEF List!Take, Status

LEMMA WriteIsSolve ==
  ASSUME IInv, Alone, atOnce = 1, NEW s \in Solver, Write(s)
  PROVE  List!Solve(offset[s])
<1>1. PICK l \in Line : l = offset[s]
  BY DEF IInv, SolverInv, AtWork, Write
<1>2. /\ file[l] = "W" /\ score[s] = position[l].winner
      /\ file \in [Line -> Player \cup {"A", "W"}]
      /\ file' = [file EXCEPT ![l] = score[s]]
  BY <1>1 DEF IInv, TypeOK, SolverInv, AtWork, Alone, Write
<1>3. score[s] \in Player
  BY <1>2, PositionType DEF IInv
<1> QED
  BY <1>1, <1>2, <1>3 DEF List!Solve, Status, Player

(* obsequi.cc:613: as long as processes run one after the other, dying as they
   may, the missing lock does no harm: positions are taken up from the first one
   on, and one that is solved stays solved.                                   *)
THEOREM LockFileKeepsTheList == Spec => KeepsTheList
<1>1. IInv /\ Alone /\ [Next]_vars => [atOnce = 1 => List!Next]_file
  <2> SUFFICES ASSUME IInv, Alone, [Next]_vars, file' # file, atOnce = 1
               PROVE  List!Next
    OBVIOUS
  <2>1. PICK s \in Solver : Mark(s) \/ Write(s)
    BY DEF Next, vars, Start, Read, Search, Report, Die
  <2>2. offset[s] \in Line
    BY <2>1 DEF IInv, SolverInv, AtWork, Mark, Write
  <2> QED
    BY <2>1, <2>2, MarkIsTake, WriteIsSolve DEF List!Next
<1> QED
  BY <1>1, ListInit, AloneInvariance, PTL DEF Spec, KeepsTheList

=============================================================================
