------------------------- MODULE DecisionLedgerProofs -------------------------
(* Theorems of DecisionLedger, for any callers, deployments and bounds. *)
EXTENDS DecisionLedger, SequenceTheorems, FiniteSetTheorems, WellFoundedInduction, TLAPS

-----------------------------------------------------------------------------
(* Lines that are written to a file. *)

(* A line is appended to a file whose last line was ended ... *)
LEMMA WrittenAppends ==
  ASSUME NEW T, NEW chain \in Seq(T), NEW line \in T,
         chain = <<>> \/ chain[Len(chain)].whole # "cut"
  PROVE  /\ Written(chain, line) = Append(chain, line)
         /\ Written(chain, line) \in Seq(T)
         /\ Len(chain) \in Nat /\ Len(Written(chain, line)) = Len(chain) + 1
         /\ Written(chain, line)[Len(chain) + 1] = line
         /\ \A i \in 1 .. Len(chain) : Written(chain, line)[i] = chain[i]
BY AppendProperties DEF Written

(* ... and otherwise continues the one that was cut short. *)
LEMMA WrittenContinues ==
  ASSUME NEW T, NEW chain \in Seq(T), NEW line, chain # <<>>, chain[Len(chain)].whole = "cut",
         [chain[Len(chain)] EXCEPT !.whole = "glued"] \in T
  PROVE  /\ Written(chain, line) \in Seq(T)
         /\ Len(chain) \in Nat \ {0} /\ Len(Written(chain, line)) = Len(chain)
         /\ Written(chain, line)[Len(chain)] = [chain[Len(chain)] EXCEPT !.whole = "glued"]
         /\ \A i \in 1 .. Len(chain) : i # Len(chain) => Written(chain, line)[i] = chain[i]
<1>1. Len(chain) \in Nat \ {0} /\ chain \in [1 .. Len(chain) -> T]
  BY EmptySeq
<1>2. Written(chain, line) = [chain EXCEPT ![Len(chain)] = [chain[Len(chain)] EXCEPT !.whole = "glued"]]
  BY DEF Written
<1>3. Written(chain, line) \in [1 .. Len(chain) -> T]
  BY <1>1, <1>2
<1>4. Written(chain, line) \in Seq(T)
  BY <1>1, <1>3, SeqDef
<1>5. Len(Written(chain, line)) = Len(chain)
  BY <1>1, <1>3, <1>4, LenProperties
<1> QED BY <1>1, <1>2, <1>4, <1>5

LEMMA LineContinued == ASSUME NEW l \in Line PROVE [l EXCEPT !.whole = "glued"] \in Line
BY DEF Line, Wholeness

LEMMA BlockContinued == ASSUME NEW b \in Block PROVE [b EXCEPT !.whole = "glued"] \in Block
BY DEF Block, Wholeness

(* Either way no line that was there is lost. *)
LEMMA LinesWritten ==
  ASSUME lines \in Seq(Line), NEW line \in Line
  PROVE  /\ Written(lines, line) \in Seq(Line) /\ Written(lines, line) # <<>>
         /\ Len(lines) \in Nat /\ Len(Written(lines, line)) \in {Len(lines), Len(lines) + 1}
<1>1. CASE lines = <<>> \/ lines[Len(lines)].whole # "cut"
  BY <1>1, WrittenAppends, EmptySeq
<1>2. CASE lines # <<>> /\ lines[Len(lines)].whole = "cut"
  <2>1. Len(lines) \in 1 .. Len(lines)
    BY <1>2, EmptySeq
  <2>2. [lines[Len(lines)] EXCEPT !.whole = "glued"] \in Line
    BY <2>1, LineContinued
  <2> QED BY <1>2, <2>2, WrittenContinues, EmptySeq
<1> QED BY <1>1, <1>2

-----------------------------------------------------------------------------
(* The types the chain of decisions depends on. *)
LedgerTypes ==
  /\ processOf \in Deployments
  /\ minted \in Nat /\ met \in BOOLEAN
  /\ lines \in Seq(Line) /\ rekey \in Seq(Line)
  /\ head \in [index : Int, hash : Nat, key : Keys]
  /\ floor \in [highest : Int, epoch : Nat, key : Keys]
  /\ key \in [Callers -> Keys]
  /\ pc \in [Callers -> Points]
  /\ draft \in [Callers -> Line]
  /\ rotations \in Keys /\ crashes \in 0 .. MaxCrashes

LEMMA NoLineIsLine == NoLine \in Line /\ CutLine \in Line
<1>1. 0 \in Keys
  BY DecisionAssumption DEF Keys
<1>2. NoLine \in Line
  BY <1>1 DEF NoLine, Line, Wholeness, ZeroHash
<1>3. [NoLine EXCEPT !.whole = "cut"] \in Line
  BY <1>2 DEF Line, Wholeness
<1> QED BY <1>2, <1>3 DEF CutLine

LEMMA TypesInit == Init => LedgerTypes
<1> SUFFICES ASSUME Init PROVE LedgerTypes
  OBVIOUS
<1>1. 0 \in Keys /\ 0 \in 0 .. MaxCrashes
  BY DecisionAssumption DEF Keys
<1>2. lines \in Seq(Line) /\ rekey \in Seq(Line) /\ draft \in [Callers -> Line]
  BY NoLineIsLine DEF Init
<1>3. pc \in [Callers -> Points] /\ key \in [Callers -> Keys]
  BY <1>1 DEF Init, Points
<1>4. head \in [index : Int, hash : Nat, key : Keys] /\ floor \in [highest : Int, epoch : Nat, key : Keys]
  BY <1>1 DEF Init, NoHead, NoFloor, ZeroHash
<1> QED BY <1>1, <1>2, <1>3, <1>4 DEF Init, GovernorInit, LedgerTypes

LEMMA NextIsNatural == LedgerTypes => NextIndex \in Nat /\ HeadOf(lines) \in Nat
<1> SUFFICES ASSUME LedgerTypes PROVE NextIndex \in Nat /\ HeadOf(lines) \in Nat
  OBVIOUS
<1>1. CASE lines = <<>>
  BY <1>1 DEF NextIndex, HeadOf, ZeroHash
<1>2. CASE lines # <<>>
  <2>1. Len(lines) \in 1 .. Len(lines)
    BY <1>2, EmptySeq DEF LedgerTypes
  <2>2. lines[Len(lines)] \in Line
    BY <2>1 DEF LedgerTypes
  <2> QED BY <1>2, <2>2 DEF NextIndex, HeadOf, Line
<1> QED BY <1>1, <1>2

(* The lines of a rotation are numbered, linked and whole. *)
LEMMA ResealedIsChain ==
  ASSUME LedgerTypes, NEW n \in Nat, NEW k \in Keys, NEW seq, seq = ResealedLines(n, k)
  PROVE  /\ seq \in Seq(Line) /\ Len(seq) = n
         /\ \A i \in 1 .. n :
              /\ seq[i].index = i - 1 /\ seq[i].whole = "yes" /\ seq[i].hash = minted + i
              /\ Linked(seq, i)
<1> DEFINE line(i) == [index |-> i - 1, prev |-> IF i = 1 THEN ZeroHash ELSE minted + i - 1,
                       hash |-> minted + i, key |-> k, whole |-> "yes"]
<1>1. seq = [i \in 1 .. n |-> line(i)] /\ minted \in Nat
  BY DEF ResealedLines, LedgerTypes
<1>2. ASSUME NEW i \in 1 .. n
      PROVE  /\ line(i) \in Line /\ line(i).index = i - 1 /\ line(i).whole = "yes"
             /\ line(i).hash = minted + i
             /\ line(i).prev = IF i = 1 THEN ZeroHash ELSE minted + (i - 1)
  <2>1. i - 1 \in Nat /\ minted + i \in Nat /\ minted + i - 1 = minted + (i - 1) /\ minted + i - 1 \in Nat
    BY <1>1
  <2> QED BY <2>1 DEF Line, Wholeness, ZeroHash
<1>3. \A i \in 1 .. n : i # 1 => i - 1 \in 1 .. n
  OBVIOUS
<1> HIDE DEF line
<1>4. seq \in [1 .. n -> Line]
  BY <1>1, <1>2
<1>5. seq \in Seq(Line)
  BY <1>4, SeqDef
<1>6. Len(seq) = n
  BY <1>4, <1>5, LenProperties
<1>7. \A i \in 1 .. n : seq[i] = line(i)
  BY <1>1
<1>8. ASSUME NEW i \in 1 .. n PROVE Linked(seq, i)
  <2>1. CASE i = 1
    BY <1>2, <1>7, <2>1 DEF Linked
  <2>2. CASE i # 1
    <3>1. seq[i - 1].hash = minted + (i - 1)
      BY <1>2, <1>3, <1>7, <2>2
    <3> QED BY <1>2, <1>7, <2>2, <3>1 DEF Linked
  <2> QED BY <2>1, <2>2
<1> QED BY <1>2, <1>5, <1>6, <1>7, <1>8

LEMMA TypesStep == LedgerTypes /\ [Next]_vars => LedgerTypes'
<1> SUFFICES ASSUME LedgerTypes, [Next]_vars PROVE LedgerTypes'
  OBVIOUS
<1>0. /\ NextIndex \in Nat /\ HeadOf(lines) \in Nat /\ NoLine \in Line /\ CutLine \in Line
      /\ Len(lines) \in Nat /\ {"out", "deciding", "heading", "flooring", "recorded", "resealing",
                                "replacing"} = Points
  BY NextIsNatural, NoLineIsLine DEF LedgerTypes, Points
<1> USE DEF LedgerTypes
<1>1. ASSUME NEW c \in Callers, EnterRecord(c) PROVE LedgerTypes'
  <2> DEFINE new == [index |-> NextIndex, prev |-> HeadOf(lines), hash |-> minted', key |-> key[c],
                     whole |-> "yes"]
  <2>1. new \in Line /\ minted' \in Nat /\ draft' = [draft EXCEPT ![c] = new]
    BY <1>0, <1>1 DEF EnterRecord, Line, Wholeness
  <2> HIDE DEF new
  <2>2. draft' \in [Callers -> Line] /\ pc' \in [Callers -> Points] /\ met' \in BOOLEAN
    BY <1>0, <1>1, <2>1 DEF EnterRecord, TakeLock
  <2> QED BY <1>1, <2>1, <2>2 DEF EnterRecord
<1>2. ASSUME NEW c \in Callers, AskGovernor(c) \/ AskDirectly(c) PROVE LedgerTypes'
  BY <1>2 DEF AskGovernor, AskDirectly, Evaluate, ledgerVars
<1>3. ASSUME NEW c \in Callers, InTheGovernor(c) PROVE LedgerTypes'
  <2>1. UNCHANGED <<processOf, met, ledgerVars>> /\ minted' \in {minted, minted + 1}
    BY <1>3 DEF InTheGovernor, GovernorStep, Weigh, Link, AppendBlock, Attest, CheckAgain
  <2> QED BY <2>1 DEF ledgerVars
<1>4. ASSUME NEW c \in Callers, AppendLine(c) PROVE LedgerTypes'
  <2>1. lines' \in Seq(Line)
    BY <1>4, LinesWritten DEF AppendLine
  <2> QED BY <1>0, <1>4, <2>1 DEF AppendLine, Answered
<1>5. ASSUME NEW c \in Callers, Raise(c) \/ Leave(c) PROVE LedgerTypes'
  BY <1>0, <1>5 DEF Raise, Leave, Answered, Return, governorVars
<1>6. ASSUME NEW c \in Callers, CommitHead(c) PROVE LedgerTypes'
  <2>1. draft[c] \in Line /\ key[c] \in Keys
    OBVIOUS
  <2>2. SealedHead(c) \in [index : Int, hash : Nat, key : Keys]
    BY <2>1 DEF SealedHead, Line
  <2> QED BY <1>0, <1>6, <2>2 DEF CommitHead, governorVars
<1>7. ASSUME NEW c \in Callers, CommitFloor(c) PROVE LedgerTypes'
  <2>1. draft[c] \in Line /\ key[c] \in Keys
    OBVIOUS
  <2>2. SealedFloor(c) \in [highest : Int, epoch : Nat, key : Keys]
    BY <2>1 DEF SealedFloor, Line
  <2> QED BY <1>0, <1>7, <2>2 DEF CommitFloor, governorVars
<1>8. ASSUME NEW c \in Callers, EnterRotate(c) PROVE LedgerTypes'
  <2>1. rotations' \in Keys /\ met' \in BOOLEAN
    BY <1>8, DecisionAssumption DEF EnterRotate, TakeLock, Keys
  <2>2. CASE lines = <<>>
    BY <1>8, <2>1, <2>2 DEF EnterRotate
  <2>3. CASE lines # <<>>
    <3> DEFINE new == [draft[c] EXCEPT !.index = Len(lines) - 1, !.key = rotations']
    <3>1. Len(lines) - 1 \in Nat /\ draft[c] \in Line
      BY <1>0, <2>3, EmptySeq
    <3>2. new \in Line
      BY <2>1, <3>1 DEF Line
    <3>3. draft' = [draft EXCEPT ![c] = new] /\ pc' = [pc EXCEPT ![c] = "resealing"]
      BY <1>8, <2>3 DEF EnterRotate
    <3> HIDE DEF new
    <3> QED BY <1>0, <1>8, <2>1, <2>3, <3>2, <3>3 DEF EnterRotate
  <2> QED BY <2>2, <2>3
<1>9. ASSUME NEW c \in Callers, Reseal(c) PROVE LedgerTypes'
  <2>1. draft[c] \in Line /\ draft[c].index + 1 \in Nat /\ draft[c].key \in Keys
    BY DEF Line
  <2>2. rekey' \in Seq(Line) /\ minted' \in Nat
    <3> DEFINE n == draft[c].index + 1
               k == draft[c].key
               seq == rekey'
    <3>1. n \in Nat /\ k \in Keys /\ seq = ResealedLines(n, k) /\ minted' = minted + n
      BY <1>9, <2>1 DEF Reseal, Line
    <3> HIDE DEF n, k, seq
    <3>2. seq \in Seq(Line)
      BY <3>1, ResealedIsChain
    <3> QED BY <3>1, <3>2 DEF seq
  <2> DEFINE new == [draft[c] EXCEPT !.hash = minted']
  <2>3. new \in Line
    BY <2>1, <2>2 DEF Line
  <2>4. draft' = [draft EXCEPT ![c] = new]
    BY <1>9 DEF Reseal
  <2> HIDE DEF new
  <2> QED BY <1>0, <1>9, <2>2, <2>3, <2>4 DEF Reseal
<1>10. ASSUME NEW c \in Callers, Replace(c) PROVE LedgerTypes'
  <2>1. draft[c] \in Line /\ draft[c].key \in Keys
    BY DEF Line
  <2>2. CASE rekey = <<>>
    BY <1>0, <1>10, <2>2 DEF Replace, Return, governorVars
  <2>3. CASE rekey # <<>>
    <3>1. pc' = [pc EXCEPT ![c] = "heading"] /\ key' = [key EXCEPT ![c] = draft[c].key]
      BY <1>10, <2>3 DEF Replace
    <3>2. pc' \in [Callers -> Points] /\ key' \in [Callers -> Keys]
      BY <1>0, <2>1, <3>1
    <3>3. lines' = rekey /\ rekey' = <<>>
      BY <1>10, <2>3 DEF Replace
    <3> QED BY <1>0, <1>10, <2>3, <3>2, <3>3 DEF Replace, governorVars
  <2> QED BY <2>2, <2>3
<1>11. ASSUME NEW p \in Processes, Crash(p) PROVE LedgerTypes'
  <2>1. lines' \in Seq(Line)
    BY <1>0, <1>11, LinesWritten DEF Crash
  <2>2. key' \in [Callers -> Keys]
    BY <1>11, DecisionAssumption DEF Crash, Keys
  <2>3. pc' \in [Callers -> Points] /\ draft' \in [Callers -> Line]
    BY <1>0, <1>11 DEF Crash
  <2>4. crashes' \in 0 .. MaxCrashes
    BY <1>11, DecisionAssumption DEF Crash
  <2> QED BY <1>11, <2>1, <2>2, <2>3, <2>4 DEF Crash, GovernorCrash
<1>12. CASE UNCHANGED vars
  BY <1>12 DEF vars, governorVars, ledgerVars
<1> QED BY <1>1, <1>2, <1>3, <1>4, <1>5, <1>6, <1>7, <1>8, <1>9, <1>10, <1>11, <1>12
      DEF Next, RecordStep

-----------------------------------------------------------------------------
(* As long as no two processes met, one caller at a time holds the         *)
(* transaction lock.                                                       *)
Alone == \A c, d \in Callers : pc[c] # "out" /\ pc[d] # "out" => c = d

(* What a caller drew up before the governor's answer still fits. *)
DraftFits ==
  \A c \in Callers :
    pc[c] = "deciding" =>
      draft[c].index = NextIndex /\ draft[c].prev = HeadOf(lines) /\ draft[c].whole = "yes"

(* Past the ledger's write, the last whole line is the caller's, and so is *)
(* the head once it has been committed.                                    *)
Ends(c) == lines[Len(lines)].index = draft[c].index /\ lines[Len(lines)].hash = draft[c].hash
WorkFits ==
  \A c \in Callers :
    /\ pc[c] \in {"heading", "flooring", "recorded"} =>
         lines # <<>> /\ (Whole(lines) => Ends(c))
    /\ pc[c] \in {"flooring", "recorded"} => head = SealedHead(c)

(* A rotation has all the lines, numbered and whole. *)
RekeyFits ==
  \A c \in Callers :
    /\ pc[c] \in {"resealing", "replacing"} =>
         lines # <<>> /\ Whole(lines) /\ draft[c].index = Len(lines) - 1
    /\ pc[c] = "replacing" =>
         /\ Len(rekey) = Len(lines) /\ rekey[Len(lines)].hash = draft[c].hash
         /\ \A n \in 1 .. Len(lines) :
              rekey[n].index = n - 1 /\ rekey[n].whole = "yes" /\ Linked(rekey, n)

Numbered == \A n \in 1 .. Len(lines) : WholeUpTo(lines, n) => InPlace(n)
HeadWithin == Whole(lines) => head.index < Len(lines)
FloorWithin == Whole(lines) => floor.highest <= head.index

Sound == Alone /\ DraftFits /\ WorkFits /\ RekeyFits /\ Numbered /\ HeadWithin /\ FloorWithin
LedgerInv == LedgerTypes /\ (met \/ Sound)

LEMMA SoundInit == Init => Sound
BY DEF Init, Sound, Alone, DraftFits, WorkFits, RekeyFits, Numbered, HeadWithin, FloorWithin,
  NoHead, NoFloor

(* The last line of a whole ledger carries its number, and the next index  *)
(* is its length.                                                          *)
LEMMA NextIsLength ==
  ASSUME LedgerTypes, Numbered, lines = <<>> \/ lines[Len(lines)].whole = "yes", Whole(lines)
  PROVE  /\ NextIndex = Len(lines)
         /\ lines # <<>> => lines[Len(lines)].index = Len(lines) - 1
<1>1. CASE lines = <<>>
  BY <1>1 DEF NextIndex
<1>2. CASE lines # <<>>
  <2>1. Len(lines) \in 1 .. Len(lines) /\ Len(lines) \in Nat
    BY <1>2, EmptySeq DEF LedgerTypes
  <2>2. lines[Len(lines)].index = Len(lines) - 1
    BY <2>1 DEF Numbered, Whole, InPlace
  <2> QED BY <1>2, <2>1, <2>2 DEF NextIndex
<1> QED BY <1>1, <1>2

(* The invariant reads nothing of the governor. *)
LEMMA GovernorKeepsLedger ==
  ASSUME Sound, UNCHANGED ledgerVars
  PROVE  Sound'
BY DEF Sound, Alone, DraftFits, WorkFits, Ends, RekeyFits, Numbered, HeadWithin, FloorWithin,
  ledgerVars, NextIndex, HeadOf, SealedHead, InPlace, Linked, WholeUpTo, Whole

(* A line that fits extends the chain; one that is written after a line    *)
(* that was cut short, or is cut short itself, is no part of it.           *)
LEMMA WritingKeepsChain ==
  ASSUME LedgerTypes, Numbered, NEW line, line \in Line, lines' = Written(lines, line),
         line.whole = "yes" => line.index = NextIndex /\ line.prev = HeadOf(lines)
  PROVE  /\ Numbered' /\ lines' # <<>>
         /\ Whole(lines)' => /\ Whole(lines) /\ lines'[Len(lines')] = line
                             /\ line.index = Len(lines) /\ Len(lines') = Len(lines) + 1
<1>0. Len(lines) \in Nat /\ \A i \in 1 .. Len(lines) : i # 1 => i - 1 \in 1 .. Len(lines)
  BY DEF LedgerTypes
<1>1. CASE lines = <<>> \/ lines[Len(lines)].whole # "cut"
  <2>1. /\ Len(lines') = Len(lines) + 1 /\ lines'[Len(lines) + 1] = line /\ lines' # <<>>
        /\ \A i \in 1 .. Len(lines) : lines'[i] = lines[i]
    BY <1>1, WrittenAppends, EmptySeq DEF LedgerTypes
  <2>2. \A n \in 1 .. Len(lines) : (WholeUpTo(lines, n)' <=> WholeUpTo(lines, n))
                                   /\ (InPlace(n)' <=> InPlace(n))
    BY <1>0, <2>1 DEF WholeUpTo, InPlace, Linked
  <2>3. ASSUME WholeUpTo(lines', Len(lines) + 1)
        PROVE  Whole(lines) /\ line.whole = "yes" /\ line.index = Len(lines)
    <3>1. \A i \in 1 .. Len(lines) + 1 : lines'[i].whole = "yes"
      BY <2>3 DEF WholeUpTo
    <3>2. Whole(lines) /\ line.whole = "yes"
      BY <1>0, <2>1, <3>1 DEF Whole, WholeUpTo
    <3>3. lines = <<>> \/ lines[Len(lines)].whole = "yes"
      BY <1>0, <3>2, EmptySeq DEF Whole, WholeUpTo, LedgerTypes
    <3> QED BY <3>2, <3>3, NextIsLength
  <2>4. ASSUME WholeUpTo(lines', Len(lines) + 1)
        PROVE  lines'[Len(lines) + 1].index = Len(lines) /\ Linked(lines', Len(lines) + 1)
    <3>1. lines'[Len(lines) + 1].index = Len(lines)
      BY <1>0, <2>1, <2>3, <2>4
    <3>2. lines'[Len(lines) + 1].prev = HeadOf(lines)
      BY <2>1, <2>3, <2>4
    <3>3. CASE lines = <<>>
      <4>1. Len(lines) + 1 = 1
        BY <3>3
      <4> QED BY <3>1, <3>2, <3>3, <4>1 DEF Linked, HeadOf
    <3>4. CASE lines # <<>>
      <4>1. Len(lines) \in 1 .. Len(lines) /\ Len(lines) + 1 # 1 /\ (Len(lines) + 1) - 1 = Len(lines)
        BY <1>0, <3>4, EmptySeq DEF LedgerTypes
      <4> QED BY <2>1, <3>1, <3>2, <3>4, <4>1 DEF Linked, HeadOf
    <3> QED BY <3>3, <3>4
  <2>5. Numbered'
    <3> SUFFICES ASSUME NEW n \in 1 .. Len(lines'), WholeUpTo(lines, n)' PROVE InPlace(n)'
      BY DEF Numbered
    <3>1. CASE n \in 1 .. Len(lines)
      BY <2>2, <3>1 DEF Numbered
    <3>2. CASE n = Len(lines) + 1
      BY <1>0, <2>4, <3>2 DEF InPlace
    <3> QED BY <1>0, <2>1, <3>1, <3>2
  <2> QED BY <1>0, <2>1, <2>3, <2>5 DEF Whole
<1>2. CASE lines # <<>> /\ lines[Len(lines)].whole = "cut"
  <2>1. Len(lines) \in 1 .. Len(lines)
    BY <1>2, EmptySeq DEF LedgerTypes
  <2>2. [lines[Len(lines)] EXCEPT !.whole = "glued"] \in Line
    BY <2>1, LineContinued DEF LedgerTypes
  <2>3. /\ lines' # <<>> /\ Len(lines') = Len(lines) /\ lines'[Len(lines)].whole # "yes"
        /\ \A i \in 1 .. Len(lines) : i # Len(lines) => lines'[i] = lines[i]
    <3>1. [lines[Len(lines)] EXCEPT !.whole = "glued"].whole = "glued"
      BY <2>1 DEF LedgerTypes, Line
    <3>2. /\ lines' \in Seq(Line) /\ Len(lines') = Len(lines)
          /\ lines'[Len(lines)] = [lines[Len(lines)] EXCEPT !.whole = "glued"]
          /\ \A i \in 1 .. Len(lines) : i # Len(lines) => lines'[i] = lines[i]
      BY <1>2, <2>2, WrittenContinues DEF LedgerTypes
    <3> QED BY <2>1, <3>1, <3>2
  <2>4. Numbered'
    <3> SUFFICES ASSUME NEW n \in 1 .. Len(lines'), WholeUpTo(lines, n)' PROVE InPlace(n)'
      BY DEF Numbered
    <3>1. n # Len(lines) /\ n \in 1 .. Len(lines) /\ n < Len(lines)
      BY <1>0, <2>3 DEF WholeUpTo
    <3>2. \A i \in 1 .. n : lines'[i] = lines[i]
      BY <1>0, <2>3, <3>1
    <3>3. WholeUpTo(lines, n)
      BY <3>2 DEF WholeUpTo
    <3>4. n # 1 => n - 1 \in 1 .. n
      BY <3>1
    <3> QED BY <3>1, <3>2, <3>3, <3>4 DEF Numbered, InPlace, Linked
  <2> QED BY <2>1, <2>3, <2>4 DEF Whole, WholeUpTo
<1> QED BY <1>1, <1>2

LEMMA AppendKeepsSound ==
  ASSUME LedgerTypes, Sound, NEW c \in Callers, AppendLine(c)
  PROVE  Sound'
<1> USE DEF Sound
<1> DEFINE line == draft[c]
<1>1. /\ line \in Line /\ lines' = Written(lines, line) /\ pc[c] = "deciding"
      /\ line.whole = "yes" => line.index = NextIndex /\ line.prev = HeadOf(lines)
      /\ pc' = [pc EXCEPT ![c] = "heading"] /\ UNCHANGED <<head, floor, rekey, key, draft>>
  BY DEF AppendLine, DraftFits, LedgerTypes
<1>2. /\ Numbered' /\ lines' # <<>>
      /\ Whole(lines)' => /\ Whole(lines) /\ lines'[Len(lines')] = line
                          /\ line.index = Len(lines) /\ Len(lines') = Len(lines) + 1
  <2> HIDE DEF line
  <2> QED BY <1>1, WritingKeepsChain
<1>3. \A d \in Callers : d # c => pc'[d] = "out"
  BY <1>1 DEF LedgerTypes, Alone
<1>4. pc'[c] = "heading"
  BY <1>1 DEF LedgerTypes
<1>5. Alone' /\ DraftFits' /\ RekeyFits'
  BY <1>3, <1>4 DEF Alone, DraftFits, RekeyFits
<1>6. WorkFits'
  BY <1>1, <1>2, <1>3, <1>4 DEF WorkFits, Ends
<1>7. HeadWithin' /\ FloorWithin'
  BY <1>1, <1>2 DEF HeadWithin, FloorWithin, LedgerTypes
<1> QED BY <1>2, <1>5, <1>6, <1>7

(* The two commits and the steps that write no file. *)
LEMMA CommitKeepsSound ==
  ASSUME LedgerTypes, Sound, NEW c \in Callers,
         CommitHead(c) \/ CommitFloor(c) \/ Leave(c) \/ Raise(c)
  PROVE  Sound'
<1> USE DEF Sound
<1>0. UNCHANGED <<lines, rekey, key>>
  BY DEF CommitHead, CommitFloor, Leave, Raise
<1>1. Numbered'
  BY <1>0 DEF Numbered, WholeUpTo, InPlace, Linked
<1>2. CASE CommitHead(c)
  <2>1. /\ head' = SealedHead(c) /\ pc' = [pc EXCEPT ![c] = "flooring"] /\ pc[c] = "heading"
        /\ UNCHANGED <<floor, draft>> /\ SealedHead(c)' = SealedHead(c)
    BY <1>0, <1>2 DEF CommitHead, SealedHead
  <2>2. ASSUME Whole(lines) PROVE SealedHead(c).index = Len(lines) - 1
    <3>1. lines # <<>> /\ Ends(c)
      BY <2>1, <2>2 DEF WorkFits
    <3>2. lines[Len(lines)].whole = "yes"
      BY <2>2, <3>1, EmptySeq DEF LedgerTypes, Whole, WholeUpTo
    <3> QED BY <2>2, <3>1, <3>2, NextIsLength DEF Ends, SealedHead
  <2>3. \A d \in Callers : d # c => pc'[d] = "out"
    BY <2>1 DEF LedgerTypes, Alone
  <2>4. pc'[c] = "flooring"
    BY <2>1 DEF LedgerTypes
  <2>5. Alone' /\ DraftFits' /\ RekeyFits'
    BY <2>3, <2>4 DEF Alone, DraftFits, RekeyFits
  <2>6. WorkFits'
    BY <1>0, <2>1, <2>3, <2>4 DEF WorkFits, Ends, Whole, WholeUpTo
  <2>7. HeadWithin' /\ FloorWithin'
    BY <1>0, <2>1, <2>2 DEF HeadWithin, FloorWithin, LedgerTypes, Whole, WholeUpTo
  <2> QED BY <1>1, <2>5, <2>6, <2>7
<1>3. CASE CommitFloor(c)
  <2>1. /\ floor' = SealedFloor(c) /\ pc' = [pc EXCEPT ![c] = "recorded"] /\ pc[c] = "flooring"
        /\ UNCHANGED <<head, draft>> /\ SealedHead(c)' = SealedHead(c) /\ head = SealedHead(c)
    BY <1>0, <1>3 DEF CommitFloor, SealedHead, WorkFits
  <2>3. \A d \in Callers : d # c => pc'[d] = "out"
    BY <2>1 DEF LedgerTypes, Alone
  <2>4. pc'[c] = "recorded"
    BY <2>1 DEF LedgerTypes
  <2>5. Alone' /\ DraftFits' /\ RekeyFits'
    BY <2>3, <2>4 DEF Alone, DraftFits, RekeyFits
  <2>6. WorkFits'
    BY <1>0, <2>1, <2>3, <2>4 DEF WorkFits, Ends, Whole, WholeUpTo
  <2>7. HeadWithin'
    BY <1>0, <2>1 DEF HeadWithin, Whole, WholeUpTo
  <2>8. FloorWithin'
    <3>1. SealedFloor(c).highest \in {floor.highest, head.index} /\ head.index <= head.index
      BY <2>1 DEF SealedFloor, SealedHead, LedgerTypes
    <3> QED BY <1>0, <2>1, <3>1 DEF FloorWithin, Whole, WholeUpTo
  <2> QED BY <1>1, <2>5, <2>6, <2>7, <2>8
<1>4. CASE Leave(c) \/ Raise(c)
  <2>1. /\ pc' = [pc EXCEPT ![c] = "out"] /\ UNCHANGED <<head, floor>>
        /\ \A d \in Callers : d # c => draft'[d] = draft[d]
    BY <1>4 DEF Leave, Raise, Return, LedgerTypes
  <2>2. \A d \in Callers : pc'[d] # "out" => d # c /\ pc'[d] = pc[d] /\ draft'[d] = draft[d]
    BY <2>1 DEF LedgerTypes
  <2>3. Alone' /\ DraftFits'
    BY <1>0, <2>2 DEF Alone, DraftFits, NextIndex, HeadOf
  <2>4. WorkFits'
    BY <1>0, <2>1, <2>2 DEF WorkFits, Ends, SealedHead, Whole, WholeUpTo
  <2>5. RekeyFits'
    BY <1>0, <2>1, <2>2 DEF RekeyFits, Linked, Whole, WholeUpTo
  <2>6. HeadWithin' /\ FloorWithin'
    BY <1>0, <2>1 DEF HeadWithin, FloorWithin, Whole, WholeUpTo
  <2> QED BY <1>1, <2>3, <2>4, <2>5, <2>6
<1> QED BY <1>2, <1>3, <1>4

(* The calls that take the lock, and meet nobody. *)
LEMMA EntryKeepsSound ==
  ASSUME LedgerTypes, Sound, NEW c \in Callers, EnterRecord(c) \/ EnterRotate(c), ~met'
  PROVE  Sound'
<1> USE DEF Sound
<1>1. \A d \in Callers : pc[d] = "out"
  BY DEF EnterRecord, EnterRotate, TakeLock, ProcessLockFree
<1>2. UNCHANGED <<lines, head, floor, rekey>>
  BY DEF EnterRecord, EnterRotate
<1>3. /\ Numbered' /\ HeadWithin' /\ FloorWithin'
  BY <1>2 DEF Numbered, WholeUpTo, InPlace, Linked, HeadWithin, FloorWithin, Whole
<1>4. pc' = pc \/ (\E q \in {"deciding", "resealing"} : pc' = [pc EXCEPT ![c] = q])
  BY DEF EnterRecord, EnterRotate
<1>5. \A d \in Callers : d # c => pc'[d] = "out"
  BY <1>1, <1>4 DEF LedgerTypes
<1>6. pc'[c] \in {"out", "deciding", "resealing"}
  BY <1>1, <1>4 DEF LedgerTypes
<1>7. Alone' /\ WorkFits'
  BY <1>5, <1>6 DEF Alone, WorkFits
<1>8. CASE EnterRecord(c)
  <2>1. /\ draft'[c].index = NextIndex /\ draft'[c].prev = HeadOf(lines) /\ draft'[c].whole = "yes"
        /\ pc'[c] = "deciding"
    BY <1>8 DEF EnterRecord, LedgerTypes
  <2>2. NextIndex' = NextIndex /\ HeadOf(lines)' = HeadOf(lines)
    BY <1>2 DEF NextIndex, HeadOf
  <2> QED BY <1>3, <1>5, <1>7, <2>1, <2>2 DEF DraftFits, RekeyFits
<1>9. CASE EnterRotate(c) /\ lines = <<>>
  <2>1. \A d \in Callers : pc'[d] = "out"
    BY <1>1, <1>9 DEF EnterRotate
  <2> QED BY <1>3, <1>7, <2>1 DEF DraftFits, RekeyFits
<1>10. CASE EnterRotate(c) /\ lines # <<>>
  <2>0. /\ pc' = [pc EXCEPT ![c] = "resealing"] /\ Whole(lines)
        /\ draft' = [draft EXCEPT ![c] = [@ EXCEPT !.index = Len(lines) - 1, !.key = rotations']]
    BY <1>10 DEF EnterRotate, Readable
  <2>1. pc'[c] = "resealing" /\ Whole(lines) /\ draft'[c].index = Len(lines) - 1
    BY <2>0 DEF LedgerTypes, Line
  <2> QED BY <1>2, <1>3, <1>5, <1>7, <1>10, <2>1 DEF DraftFits, RekeyFits, Whole, WholeUpTo
<1> QED BY <1>8, <1>9, <1>10

(* A rotation rewrites the chain whole, with its numbers. *)
LEMMA ResealKeepsSound ==
  ASSUME LedgerTypes, Sound, NEW c \in Callers, Reseal(c)
  PROVE  Sound'
<1> USE DEF Sound
<1> DEFINE n == Len(lines)
           k == draft[c].key
           seq == rekey'
<1>1. /\ pc[c] = "resealing" /\ lines # <<>> /\ draft[c].index + 1 = n /\ n \in Nat \ {0}
      /\ k \in Keys /\ seq = ResealedLines(n, k)
      /\ minted' = minted + n /\ draft'[c].hash = minted + n
      /\ draft'[c].index = draft[c].index
      /\ pc' = [pc EXCEPT ![c] = "replacing"] /\ UNCHANGED <<lines, head, floor, key>>
  <2>1. pc[c] = "resealing" /\ draft[c] \in Line /\ n \in Nat \ {0} /\ lines # <<>> /\ draft[c].index = n - 1
    BY EmptySeq DEF Reseal, RekeyFits, LedgerTypes
  <2>2. draft[c].index + 1 = n /\ minted + draft[c].index + 1 = minted + n
    BY <2>1 DEF LedgerTypes
  <2>3. draft' = [draft EXCEPT ![c] = [@ EXCEPT !.hash = minted']] /\ minted' = minted + n
    BY <2>2 DEF Reseal
  <2>4. draft'[c].hash = minted' /\ draft'[c].index = draft[c].index
    BY <2>1, <2>3 DEF LedgerTypes, Line
  <2> QED BY <2>1, <2>2, <2>3, <2>4 DEF Reseal, Line
<1>2. /\ Len(seq) = n
      /\ \A i \in 1 .. n : /\ seq[i].index = i - 1 /\ seq[i].whole = "yes" /\ seq[i].hash = minted + i
                           /\ Linked(seq, i)
  <2> HIDE DEF n, k, seq
  <2> QED BY <1>1, ResealedIsChain
<1>3. \A d \in Callers : d # c => pc'[d] = "out"
  BY <1>1 DEF LedgerTypes, Alone
<1>4. pc'[c] = "replacing"
  BY <1>1 DEF LedgerTypes
<1>5. n \in 1 .. n /\ seq[n].hash = draft'[c].hash
  BY <1>1, <1>2
<1>6. RekeyFits'
  <2>1. Whole(lines)' /\ draft'[c].index = Len(lines)' - 1
    BY <1>1 DEF RekeyFits, Whole, WholeUpTo, LedgerTypes
  <2> QED BY <1>1, <1>2, <1>3, <1>4, <1>5, <2>1 DEF RekeyFits
<1>7. Alone' /\ DraftFits' /\ WorkFits'
  BY <1>3, <1>4 DEF Alone, DraftFits, WorkFits
<1>8. Numbered' /\ HeadWithin' /\ FloorWithin'
  BY <1>1 DEF Numbered, WholeUpTo, InPlace, Linked, HeadWithin, FloorWithin, Whole
<1> QED BY <1>6, <1>7, <1>8

LEMMA ReplaceKeepsSound ==
  ASSUME LedgerTypes, Sound, NEW c \in Callers, Replace(c)
  PROVE  Sound'
<1> USE DEF Sound
<1>1. /\ pc[c] = "replacing" /\ lines # <<>> /\ Whole(lines) /\ draft[c].index = Len(lines) - 1
      /\ Len(rekey) = Len(lines) /\ rekey[Len(lines)].hash = draft[c].hash
      /\ \A n \in 1 .. Len(lines) :
           rekey[n].index = n - 1 /\ rekey[n].whole = "yes" /\ Linked(rekey, n)
      /\ Len(lines) \in Nat \ {0}
  BY EmptySeq DEF Replace, RekeyFits, LedgerTypes
<1>2. rekey # <<>>
  BY <1>1
<1>3. /\ lines' = rekey /\ pc' = [pc EXCEPT ![c] = "heading"] /\ UNCHANGED <<head, floor, draft>>
  BY <1>2 DEF Replace
<1>4. \A d \in Callers : d # c => pc'[d] = "out"
  BY <1>1, <1>3 DEF LedgerTypes, Alone
<1>5. pc'[c] = "heading"
  BY <1>3 DEF LedgerTypes
<1>6. Numbered'
  BY <1>1, <1>3 DEF Numbered, InPlace
<1>7. Alone' /\ DraftFits' /\ RekeyFits'
  BY <1>4, <1>5 DEF Alone, DraftFits, RekeyFits
<1>8. WorkFits'
  <2>1. lines'[Len(lines')].index = draft'[c].index /\ lines'[Len(lines')].hash = draft'[c].hash
    BY <1>1, <1>3
  <2> QED BY <1>2, <1>3, <1>4, <1>5, <2>1 DEF WorkFits, Ends
<1>9. HeadWithin' /\ FloorWithin'
  BY <1>1, <1>3 DEF HeadWithin, FloorWithin
<1> QED BY <1>6, <1>7, <1>8, <1>9

(* What a process leaves when it dies is what the next writer needs. *)
LEMMA CrashKeepsSound ==
  ASSUME LedgerTypes, Sound, NEW p \in Processes, Crash(p)
  PROVE  Sound'
<1> USE DEF Sound
<1>1. /\ \A c \in Callers : pc'[c] # "out" => /\ processOf[c] # p /\ pc'[c] = pc[c]
                                              /\ draft'[c] = draft[c] /\ key'[c] = key[c]
      /\ UNCHANGED <<head, floor, rekey>>
  BY DEF Crash
<1>2. CASE lines' = lines
  <2>1. Numbered' /\ HeadWithin' /\ FloorWithin'
    BY <1>1, <1>2 DEF Numbered, WholeUpTo, InPlace, Linked, HeadWithin, FloorWithin, Whole
  <2>2. Alone' /\ DraftFits'
    BY <1>1, <1>2 DEF Alone, DraftFits, NextIndex, HeadOf
  <2>3. WorkFits'
    BY <1>1, <1>2 DEF WorkFits, Ends, SealedHead, Whole, WholeUpTo
  <2>4. RekeyFits'
    BY <1>1, <1>2 DEF RekeyFits, Linked, Whole, WholeUpTo
  <2> QED BY <2>1, <2>2, <2>3, <2>4
<1>3. CASE lines' = Written(lines, CutLine) /\ \E c \in Callers : processOf[c] = p /\ pc[c] = "deciding"
  <2>1. \A d \in Callers : pc'[d] = "out"
    BY <1>1, <1>3 DEF Alone
  <2>2. CutLine \in Line /\ CutLine.whole = "cut"
    BY NoLineIsLine DEF CutLine, NoLine
  <2>3. Numbered' /\ (Whole(lines)' => lines'[Len(lines')] = CutLine /\ lines' # <<>>)
    <3> DEFINE line == CutLine
    <3>1. line \in Line /\ line.whole # "yes" /\ lines' = Written(lines, line)
      BY <1>3, <2>2
    <3> HIDE DEF line
    <3>2. Numbered' /\ (Whole(lines)' => lines'[Len(lines')] = line /\ lines' # <<>>)
      BY <3>1, WritingKeepsChain
    <3> QED BY <3>2 DEF line
  <2>4. ~Whole(lines)'
    <3> SUFFICES ASSUME Whole(lines)' PROVE FALSE
      OBVIOUS
    <3>1. lines' \in Seq(Line)
      BY <1>3, <2>2, LinesWritten DEF LedgerTypes
    <3>2. Len(lines') \in 1 .. Len(lines')
      BY <2>3, <3>1, EmptySeq
    <3> QED BY <2>2, <2>3, <3>2 DEF Whole, WholeUpTo
  <2> QED BY <2>1, <2>3, <2>4 DEF Alone, DraftFits, WorkFits, RekeyFits, HeadWithin, FloorWithin
<1> QED BY <1>2, <1>3 DEF Crash

LEMMA LedgerStep == LedgerInv /\ [Next]_vars => LedgerInv'
<1> SUFFICES ASSUME LedgerInv, [Next]_vars, ~met' PROVE Sound'
  BY TypesStep DEF LedgerInv
<1>1. met => met'
  BY DEF Next, RecordStep, EnterRecord, AskGovernor, InTheGovernor, EnterRotate, AskDirectly, AppendLine,
     Raise, CommitHead, CommitFloor, Leave, Reseal, Replace, Crash, GovernorCrash, GovernorStep, Weigh,
     Link, AppendBlock, Attest, CheckAgain, Answered, Evaluate, TakeLock, governorVars, vars
<1>2. LedgerTypes /\ Sound
  BY <1>1 DEF LedgerInv
<1>3. ASSUME NEW c \in Callers, AskGovernor(c) \/ AskDirectly(c) \/ InTheGovernor(c)
      PROVE  Sound'
  BY <1>2, <1>3, GovernorKeepsLedger DEF AskGovernor, AskDirectly, InTheGovernor
<1>4. CASE UNCHANGED vars
  BY <1>2, <1>4, GovernorKeepsLedger DEF vars
<1> QED BY <1>2, <1>3, <1>4, AppendKeepsSound, CommitKeepsSound, EntryKeepsSound, ResealKeepsSound,
      ReplaceKeepsSound, CrashKeepsSound DEF Next, RecordStep

LEMMA LedgerStarts == Init => LedgerInv
BY SoundInit, TypesInit DEF LedgerInv

(* Whatever callers of one process, or of several that never met, record,  *)
(* rotate or lose in a crash: as far as the first line that was cut short, *)
(* the lines form one chain, numbered without a gap.                       *)
THEOREM ChainSafe == Spec => []LedgerChained
<1>1. LedgerInv => LedgerChained
  BY DEF LedgerInv, Sound, Numbered, LedgerChained
<1> QED BY <1>1, LedgerStarts, LedgerStep, PTL DEF Spec

(* The floor is never above the head, also between the two writes and      *)
(* after a crash there, unless two processes met or a line was cut short.  *)
THEOREM RollbackSafe == Spec => []NoFalseRollback
<1>1. LedgerInv => NoFalseRollback
  BY DEF LedgerInv, Sound, FloorWithin, NoFalseRollback
<1> QED BY <1>1, LedgerStarts, LedgerStep, PTL DEF Spec

(* A decision whose recording completed can be read back with the whole    *)
(* ledger, whatever an earlier writer's death had left unfinished, unless  *)
(* two processes met, a line was cut short or another key has signed.      *)
THEOREM ReadableSafe == Spec => []RecordedIsReadable
<1>1. LedgerInv => RecordedIsReadable
  <2> SUFFICES ASSUME LedgerInv, NEW c \in Callers, pc[c] = "recorded", ~met, Whole(lines),
                      SignedWith(key[c])
               PROVE  Readable(key[c])
    BY DEF RecordedIsReadable
  <2>1. LedgerTypes /\ Sound
    BY DEF LedgerInv
  <2>2. lines # <<>> /\ Ends(c) /\ head = SealedHead(c)
    BY <2>1 DEF Sound, WorkFits
  <2>3. lines[Len(lines)].whole = "yes" /\ Len(lines) \in Nat \ {0}
    BY <2>1, <2>2, EmptySeq DEF LedgerTypes, Whole, WholeUpTo
  <2>4. head.index = Len(lines) - 1 /\ head.hash = HeadOf(lines) /\ head.key = key[c]
    BY <2>1, <2>2, <2>3, NextIsLength DEF Sound, Ends, SealedHead, HeadOf
  <2>5. head # NoHead
    BY <2>3, <2>4 DEF NoHead
  <2>6. \A n \in 1 .. Len(lines) : InPlace(n)
    <3>1. \A n \in 1 .. Len(lines) : WholeUpTo(lines, n)
      BY <2>3 DEF Whole, WholeUpTo
    <3> QED BY <2>1, <3>1 DEF Sound, Numbered
  <2>7. head.index >= floor.highest
    BY <2>1 DEF Sound, FloorWithin, LedgerTypes
  <2> QED BY <2>4, <2>5, <2>6, <2>7 DEF Readable
<1> QED BY <1>1, LedgerStarts, LedgerStep, PTL DEF Spec

-----------------------------------------------------------------------------
(* The governor.  Its steps, and what the others leave of its state. *)
Quiet ==
  /\ UNCHANGED <<processOf, budget, manifest>>
  /\ minted' \in Nat /\ met' \in BOOLEAN /\ (met => met')
  /\ \E S \in SUBSET Callers :
       /\ stage' = [c \in Callers |-> IF c \in S THEN "idle" ELSE stage[c]]
       /\ verdict' = [c \in Callers |-> IF c \in S THEN NoVerdict ELSE verdict[c]]

LEMMA QuietOf ==
  ASSUME NEW S \in SUBSET Callers, UNCHANGED <<processOf, budget, manifest>>,
         minted' \in Nat, met' \in BOOLEAN, met => met',
         stage' = [c \in Callers |-> IF c \in S THEN "idle" ELSE stage[c]],
         verdict' = [c \in Callers |-> IF c \in S THEN NoVerdict ELSE verdict[c]]
  PROVE  Quiet
BY Zenon DEF Quiet

LEMMA StepKinds ==
  ASSUME LedgerTypes, GovernorTypeOK, [Next]_vars
  PROVE  \/ \E c \in Callers : Evaluate(c) \/ Link(c) \/ AppendBlock(c) \/ Attest(c) \/ CheckAgain(c)
         \/ \E c \in Callers : \E r \in RequestOf(c) : Weigh(c, r)
         \/ \E p \in Processes : GovernorCrash({c \in Callers : processOf[c] = p})
         \/ Quiet
<1>1. ASSUME NEW c \in Callers, AppendLine(c) \/ Raise(c) PROVE Quiet
  <2>1. /\ UNCHANGED <<processOf, budget, manifest, minted, met>>
        /\ stage' = [stage EXCEPT ![c] = "idle"] /\ verdict' = [verdict EXCEPT ![c] = NoVerdict]
    BY <1>1 DEF AppendLine, Raise, Answered
  <2> DEFINE S == {c}
  <2>2. /\ stage' = [d \in Callers |-> IF d \in S THEN "idle" ELSE stage[d]]
        /\ verdict' = [d \in Callers |-> IF d \in S THEN NoVerdict ELSE verdict[d]]
        /\ S \in SUBSET Callers
    BY <2>1 DEF GovernorTypeOK
  <2>3. minted' \in Nat /\ met' \in BOOLEAN /\ (met => met')
    BY <2>1 DEF GovernorTypeOK
  <2> HIDE DEF S
  <2> QED BY <2>1, <2>2, <2>3, QuietOf
<1>2. ASSUME UNCHANGED <<processOf, budget, manifest, stage, verdict>>, minted' \in Nat,
             met' \in BOOLEAN, met => met'
      PROVE  Quiet
  <2> DEFINE S == {}
  <2>1. /\ stage' = [d \in Callers |-> IF d \in S THEN "idle" ELSE stage[d]]
        /\ verdict' = [d \in Callers |-> IF d \in S THEN NoVerdict ELSE verdict[d]]
        /\ S \in SUBSET Callers
    BY <1>2 DEF GovernorTypeOK
  <2> HIDE DEF S
  <2> QED BY <1>2, <2>1, QuietOf
<1>3. ASSUME NEW c \in Callers, CommitHead(c) \/ CommitFloor(c) \/ Leave(c) \/ Replace(c)
      PROVE  Quiet
  BY <1>2, <1>3 DEF CommitHead, CommitFloor, Leave, Replace, governorVars, GovernorTypeOK
<1>4. ASSUME NEW c \in Callers, EnterRecord(c) \/ EnterRotate(c) PROVE Quiet
  <2>1. UNCHANGED <<processOf, budget, manifest, stage, verdict>> /\ minted' \in {minted, minted + 1}
    BY <1>4 DEF EnterRecord, EnterRotate
  <2>2. TakeLock(c)
    BY <1>4 DEF EnterRecord, EnterRotate
  <2>3. met' \in BOOLEAN /\ (met => met')
    BY <2>2 DEF TakeLock, GovernorTypeOK
  <2> QED BY <1>2, <2>1, <2>3 DEF GovernorTypeOK
<1>5. ASSUME NEW c \in Callers, Reseal(c) PROVE Quiet
  <2>1. draft[c].index \in Nat
    BY DEF LedgerTypes, Line
  <2> QED BY <1>2, <1>5, <2>1 DEF Reseal, GovernorTypeOK
<1>6. CASE UNCHANGED vars
  BY <1>2, <1>6 DEF vars, governorVars, GovernorTypeOK
<1> QED BY <1>1, <1>3, <1>4, <1>5, <1>6
      DEF Next, RecordStep, AskGovernor, AskDirectly, InTheGovernor, GovernorStep, Crash

(* A block that is written leaves the others what they were worth. *)
Fine(n) == budget[n].whole = "yes" /\ Linked(budget, n)

LEMMA BlocksWritten ==
  ASSUME budget \in Seq(Block), NEW b, b \in Block, budget' = Written(budget, b)
  PROVE  /\ budget' \in Seq(Block) /\ budget' # <<>>
         /\ Len(budget) \in Nat /\ Len(budget') \in {Len(budget), Len(budget) + 1}
         /\ \A n \in 1 .. Len(budget) : (Fine(n)' <=> Fine(n))
<1>0. Len(budget) \in Nat /\ \A i \in 1 .. Len(budget) : i # 1 => i - 1 \in 1 .. Len(budget)
  OBVIOUS
<1>1. CASE budget = <<>> \/ budget[Len(budget)].whole # "cut"
  <2>1. /\ budget' \in Seq(Block) /\ Len(budget') = Len(budget) + 1
        /\ \A i \in 1 .. Len(budget) : budget'[i] = budget[i]
    BY <1>1, WrittenAppends
  <2>2. budget' # <<>>
    BY <1>0, <2>1, EmptySeq
  <2> QED BY <1>0, <2>1, <2>2 DEF Fine, Linked
<1>2. CASE budget # <<>> /\ budget[Len(budget)].whole = "cut"
  <2>1. Len(budget) \in 1 .. Len(budget)
    BY <1>2, EmptySeq
  <2>2. budget[Len(budget)] \in Block /\ [budget[Len(budget)] EXCEPT !.whole = "glued"] \in Block
    BY <2>1, BlockContinued
  <2>3. /\ budget' \in Seq(Block) /\ Len(budget') = Len(budget)
        /\ budget'[Len(budget)] = [budget[Len(budget)] EXCEPT !.whole = "glued"]
        /\ \A i \in 1 .. Len(budget) : i # Len(budget) => budget'[i] = budget[i]
    BY <1>2, <2>2, WrittenContinues
  <2>4. /\ budget'[Len(budget)].whole # "yes"
        /\ \A i \in 1 .. Len(budget) : budget'[i].prev = budget[i].prev /\ budget'[i].hash = budget[i].hash
    BY <2>1, <2>2, <2>3 DEF Block
  <2>5. \A n \in 1 .. Len(budget) : (budget'[n].whole = "yes" <=> budget[n].whole = "yes")
    BY <1>2, <2>1, <2>3, <2>4
  <2>6. \A n \in 1 .. Len(budget) : (Linked(budget, n)' <=> Linked(budget, n))
    BY <1>0, <2>4 DEF Linked
  <2>7. budget' # <<>>
    BY <2>1, <2>3, EmptySeq
  <2> QED BY <1>0, <2>3, <2>5, <2>6, <2>7 DEF Fine
<1> QED BY <1>1, <1>2

LEMMA HeadIsNatural == budget \in Seq(Block) => HeadOf(budget) \in Nat
<1> SUFFICES ASSUME budget \in Seq(Block) PROVE HeadOf(budget) \in Nat
  OBVIOUS
<1>1. CASE budget = <<>>
  BY <1>1 DEF HeadOf, ZeroHash
<1>2. CASE budget # <<>>
  <2>1. Len(budget) \in 1 .. Len(budget)
    BY <1>2, EmptySeq
  <2>2. budget[Len(budget)] \in Block
    BY <2>1
  <2> QED BY <1>2, <2>2 DEF HeadOf, Block
<1> QED BY <1>1, <1>2

LEMMA NoVerdictIsBlock == NoVerdict \in Block /\ CutBlock \in Block
<1>1. NoVerdict \in Block
  BY DEF NoVerdict, Block, Decisions, Wholeness, ZeroHash
<1>2. [NoVerdict EXCEPT !.whole = "cut"] \in Block
  BY <1>1 DEF Block, Wholeness
<1> QED BY <1>1, <1>2 DEF CutBlock

LEMMA GovernorTypesStart == Init => GovernorTypeOK
<1> SUFFICES ASSUME Init PROVE GovernorTypeOK
  OBVIOUS
<1>1. budget \in Seq(Block) /\ verdict \in [Callers -> Block] /\ stage \in [Callers -> Stages]
  BY NoVerdictIsBlock DEF Init, GovernorInit, Stages
<1>2. manifest \in [blocks : Int, head : Nat]
  BY DEF Init, GovernorInit, NoManifest, ZeroHash
<1> QED BY <1>1, <1>2 DEF Init, GovernorInit, GovernorTypeOK

LEMMA GovernorTypesStep == LedgerTypes /\ GovernorTypeOK /\ [Next]_vars => GovernorTypeOK'
<1> SUFFICES ASSUME LedgerTypes, GovernorTypeOK, [Next]_vars PROVE GovernorTypeOK'
  OBVIOUS
<1>0. /\ NoVerdict \in Block /\ CutBlock \in Block /\ HeadOf(budget) \in Nat /\ Len(budget) \in Nat
      /\ {"idle", "weighing", "linking", "appending", "attesting", "checking", "answered",
          "refused"} = Stages
  BY NoVerdictIsBlock, HeadIsNatural DEF GovernorTypeOK, Stages
<1> USE DEF GovernorTypeOK
<1>1. ASSUME NEW c \in Callers, Evaluate(c) PROVE GovernorTypeOK'
  BY <1>0, <1>1 DEF Evaluate
<1>2. ASSUME NEW c \in Callers, NEW r \in RequestOf(c), Weigh(c, r) PROVE GovernorTypeOK'
  <2>1. r.cost \in Nat /\ Decide(r) \in Decisions /\ verdict[c] \in Block
    BY GovernorAssumption, DecisionAssumption DEF RequestOf, Request, Decide, Decisions
  <2> DEFINE new == [verdict[c] EXCEPT !.decision = Decide(r), !.cost = r.cost]
  <2>2. new \in Block
    BY <2>1 DEF Block
  <2>3. verdict' \in {verdict, [verdict EXCEPT ![c] = new]}
    BY <1>2 DEF Weigh
  <2> HIDE DEF new
  <2>4. verdict' \in [Callers -> Block]
    BY <2>2, <2>3
  <2> QED BY <1>0, <1>2, <2>4 DEF Weigh
<1>3. ASSUME NEW c \in Callers, Link(c) PROVE GovernorTypeOK'
  <2> DEFINE new == [verdict[c] EXCEPT !.prev = HeadOf(budget), !.hash = minted + 1]
  <2>1. verdict[c] \in Block /\ minted + 1 \in Nat
    OBVIOUS
  <2>2. new \in Block
    BY <1>0, <2>1 DEF Block
  <2>3. verdict' \in {verdict, [verdict EXCEPT ![c] = new]} /\ minted' \in {minted, minted + 1}
    BY <1>3 DEF Link
  <2> HIDE DEF new
  <2>4. verdict' \in [Callers -> Block]
    BY <2>2, <2>3
  <2> QED BY <1>0, <1>3, <2>3, <2>4 DEF Link
<1>4. ASSUME NEW c \in Callers, AppendBlock(c) PROVE GovernorTypeOK'
  <2>1. budget' \in Seq(Block)
    <3> DEFINE b == verdict[c]
    <3>1. b \in Block /\ budget' = Written(budget, b)
      BY <1>4 DEF AppendBlock
    <3> HIDE DEF b
    <3> QED BY <3>1, BlocksWritten
  <2> QED BY <1>0, <1>4, <2>1 DEF AppendBlock
<1>5. ASSUME NEW c \in Callers, Attest(c) \/ CheckAgain(c) PROVE GovernorTypeOK'
  <2>1. verdict[c].hash \in Nat
    BY DEF Block
  <2> QED BY <1>0, <1>5, <2>1 DEF Attest, CheckAgain
<1>6. ASSUME NEW p \in Processes, GovernorCrash({c \in Callers : processOf[c] = p})
      PROVE  GovernorTypeOK'
  <2>1. budget' \in Seq(Block)
    BY <1>0, <1>6, BlocksWritten DEF GovernorCrash
  <2>2. manifest' \in [blocks : Int, head : Nat]
    BY <1>6 DEF GovernorCrash, TornManifest, ZeroHash
  <2>3. stage' \in [Callers -> Stages] /\ verdict' \in [Callers -> Block]
    BY <1>0, <1>6 DEF GovernorCrash
  <2> QED BY <1>6, <2>1, <2>2, <2>3 DEF GovernorCrash
<1>7. CASE Quiet
  BY <1>0, <1>7 DEF Quiet
<1> QED BY <1>1, <1>2, <1>3, <1>4, <1>5, <1>6, <1>7, StepKinds

(* Type correctness of the governor and the ledger. *)
THEOREM TypeSafe == Spec => []DecisionTypeOK
<1>1. LedgerInv /\ GovernorTypeOK => DecisionTypeOK
  BY DecisionAssumption DEF LedgerInv, LedgerTypes, DecisionTypeOK
<1>2. LedgerInv => LedgerTypes
  BY DEF LedgerInv
<1> QED BY <1>1, <1>2, LedgerStarts, LedgerStep, GovernorTypesStart, GovernorTypesStep, PTL DEF Spec

-----------------------------------------------------------------------------
(* What the governor does after a block that does not fit.  The lock of a  *)
(* process lets one of its callers in ...                                  *)
OnePerProcess ==
  \A c, d \in Callers : InGovernor(c) /\ InGovernor(d) /\ processOf[c] = processOf[d] => c = d

(* ... and those processes have a block to write for whom the chain was    *)
(* sound when they looked.                                                 *)
InUse == {processOf[c] : c \in Callers}
BeforeWriting == {"weighing", "linking", "appending"}
Owing == {c \in Callers : stage[c] \in BeforeWriting}
Owed == {processOf[c] : c \in Owing}

Stopping == \A n \in 1 .. Len(budget) : Fine(n) \/ Len(budget) - n + Cardinality(Owed) < ProcessesInUse

LEMMA InUseFinite ==
  ASSUME processOf \in Deployments
  PROVE  IsFiniteSet(InUse) /\ ProcessesInUse = Cardinality(InUse) /\ ProcessesInUse \in Nat
<1>1. processOf \in [Callers -> InUse] /\ \A p \in InUse : \E c \in Callers : processOf[c] = p
  BY DecisionAssumption DEF InUse
<1>2. processOf \in Surjection(Callers, InUse)
  BY <1>1 DEF Surjection
<1>3. IsFiniteSet(InUse)
  BY <1>2, FS_Surjection, DecisionAssumption
<1> QED BY <1>3, FS_CardinalityType DEF ProcessesInUse, InUse

LEMMA OwedFinite ==
  ASSUME processOf \in Deployments
  PROVE  IsFiniteSet(Owed) /\ Cardinality(Owed) \in Nat
<1>1. Owed \in SUBSET InUse
  BY DEF Owed, Owing, InUse
<1> QED BY <1>1, InUseFinite, FS_Subset, FS_CardinalityType

(* Steps after which no process more has a block to write. *)
LEMMA QuietStops ==
  ASSUME processOf \in Deployments, UNCHANGED <<processOf, budget>>, budget \in Seq(Block), Stopping,
         NEW T, T \in SUBSET Owed, Owed' = T
  PROVE  Stopping'
<1>1. IsFiniteSet(T) /\ Cardinality(T) <= Cardinality(Owed) /\ Cardinality(T) \in Nat
  BY OwedFinite, FS_Subset, FS_CardinalityType
<1>2. ProcessesInUse' = ProcessesInUse /\ ProcessesInUse \in Nat /\ Cardinality(Owed) \in Nat
  BY OwedFinite, InUseFinite DEF ProcessesInUse
<1>3. Cardinality(Owed)' = Cardinality(T)
  OBVIOUS
<1>4. Len(budget) \in Nat /\ \A n \in 1 .. Len(budget) : (Fine(n)' <=> Fine(n))
  BY DEF Fine, Linked
<1> HIDE DEF Owed
<1> QED BY <1>1, <1>2, <1>3, <1>4 DEF Stopping

(* A process that writes its block owes none any more. *)
LEMMA WritingStops ==
  ASSUME processOf \in Deployments, UNCHANGED processOf, budget \in Seq(Block), Stopping,
         NEW b, b \in Block, budget' = Written(budget, b),
         NEW p, p \in Owed, NEW T, T \in SUBSET (Owed \ {p}), Owed' = T
  PROVE  Stopping'
<1>1. /\ IsFiniteSet(Owed \ {p}) /\ Cardinality(Owed \ {p}) = Cardinality(Owed) - 1
      /\ Cardinality(Owed) \in Nat
  BY OwedFinite, FS_RemoveElement
<1>2. IsFiniteSet(T) /\ Cardinality(T) <= Cardinality(Owed) - 1 /\ Cardinality(T) \in Nat
  BY <1>1, FS_Subset, FS_CardinalityType
<1>3. ProcessesInUse' = ProcessesInUse /\ ProcessesInUse \in Nat /\ Cardinality(Owed) <= ProcessesInUse
  <2>1. Owed \in SUBSET InUse
    BY DEF Owed, Owing, InUse
  <2> QED BY <2>1, InUseFinite, FS_Subset DEF ProcessesInUse
<1>4. Cardinality(Owed)' = Cardinality(T)
  OBVIOUS
<1>5. /\ Len(budget) \in Nat /\ Len(budget)' \in {Len(budget), Len(budget) + 1}
      /\ \A n \in 1 .. Len(budget) : (Fine(n)' <=> Fine(n))
  BY BlocksWritten
<1> SUFFICES ASSUME NEW n \in 1 .. Len(budget)', ~Fine(n)'
             PROVE  Len(budget)' - n + Cardinality(T) < ProcessesInUse
  BY <1>3, <1>4 DEF Stopping
<1>6. CASE n \in 1 .. Len(budget)
  <2>1. Len(budget) - n + Cardinality(Owed) < ProcessesInUse
    BY <1>5, <1>6 DEF Stopping
  <2> QED BY <1>1, <1>2, <1>3, <1>5, <1>6, <2>1
<1>7. CASE n \notin 1 .. Len(budget)
  <2>1. n = Len(budget)'
    BY <1>5, <1>7
  <2> QED BY <1>1, <1>2, <1>3, <1>5, <2>1
<1> QED BY <1>6, <1>7

StopInv == OnePerProcess /\ Stopping

LEMMA StopStarts == Init => StopInv
BY DEF Init, GovernorInit, StopInv, OnePerProcess, InGovernor, Inside, Stopping

LEMMA OnePerProcessStep ==
  ASSUME LedgerTypes, GovernorTypeOK, OnePerProcess, [Next]_vars
  PROVE  OnePerProcess'
<1>0. /\ stage \in [Callers -> Stages]
      /\ {"weighing", "linking", "appending", "attesting", "checking"} = Inside
      /\ {"idle", "answered", "refused"} \cap Inside = {}
  BY DEF GovernorTypeOK, Inside
<1>1. ASSUME NEW c \in Callers, Evaluate(c) PROVE OnePerProcess'
  <2>1. UNCHANGED processOf /\ \A d \in Callers : d # c => stage'[d] = stage[d]
    BY <1>0, <1>1 DEF Evaluate
  <2>2. \A d \in Callers : processOf[d] = processOf[c] => stage[d] \notin Inside
    BY <1>1 DEF Evaluate, ClassLockFree, InGovernor
  <2> QED BY <2>1, <2>2 DEF OnePerProcess, InGovernor
<1>2. ASSUME UNCHANGED processOf, \A d \in Callers : stage'[d] \in Inside => stage[d] \in Inside
      PROVE  OnePerProcess'
  BY <1>2 DEF OnePerProcess, InGovernor
<1>3. ASSUME NEW c \in Callers, Link(c) \/ AppendBlock(c) \/ Attest(c) \/ CheckAgain(c)
      PROVE  OnePerProcess'
  BY <1>0, <1>2, <1>3 DEF Link, AppendBlock, Attest, CheckAgain
<1>4. ASSUME NEW c \in Callers, NEW r, Weigh(c, r) PROVE OnePerProcess'
  BY <1>0, <1>2, <1>4 DEF Weigh
<1>5. ASSUME NEW p \in Processes, GovernorCrash({c \in Callers : processOf[c] = p})
      PROVE  OnePerProcess'
  BY <1>0, <1>2, <1>5 DEF GovernorCrash
<1>6. CASE Quiet
  BY <1>0, <1>2, <1>6 DEF Quiet
<1> QED BY <1>1, <1>3, <1>4, <1>5, <1>6, StepKinds

LEMMA StoppingStep ==
  ASSUME LedgerTypes, GovernorTypeOK, StopInv, [Next]_vars
  PROVE  Stopping'
<1>0. /\ stage \in [Callers -> Stages] /\ processOf \in Deployments /\ budget \in Seq(Block)
      /\ verdict \in [Callers -> Block] /\ Stopping /\ OnePerProcess
  BY DEF GovernorTypeOK, LedgerTypes, StopInv
<1>1. ASSUME UNCHANGED <<processOf, budget>>,
             \A d \in Callers : stage'[d] \in BeforeWriting => stage[d] \in BeforeWriting
      PROVE  Stopping'
  <2> DEFINE T == Owed'
  <2>1. T \in SUBSET Owed
    BY <1>1 DEF Owed, Owing
  <2>2. Owed' = T
    OBVIOUS
  <2> HIDE DEF T
  <2> QED BY <1>0, <1>1, <2>1, <2>2, QuietStops
<1>2. ASSUME NEW p, NEW b, b \in Block, budget' = Written(budget, b), UNCHANGED processOf,
             \E c \in Callers : processOf[c] = p /\ stage[c] = "appending",
             \A d \in Callers : stage'[d] \in BeforeWriting => stage[d] \in BeforeWriting,
             \A d \in Callers : processOf[d] = p => stage'[d] \notin BeforeWriting
      PROVE  Stopping'
  <2> DEFINE T == Owed'
  <2>1. p \in Owed
    BY <1>2 DEF Owed, Owing, BeforeWriting
  <2>2. T \in SUBSET (Owed \ {p})
    BY <1>2 DEF Owed, Owing
  <2>3. Owed' = T
    OBVIOUS
  <2> HIDE DEF T
  <2> QED BY <1>0, <1>2, <2>1, <2>2, <2>3, WritingStops
<1>3. ASSUME NEW c \in Callers, Evaluate(c) PROVE Stopping'
  <2>1. CASE Verified
    <3>1. \A n \in 1 .. Len(budget) : Fine(n)
      BY <2>1 DEF Verified, Chained, Whole, WholeUpTo, Fine
    <3>2. \A n \in 1 .. Len(budget) : Fine(n)'
      BY <1>3, <3>1 DEF Evaluate, Fine, Linked
    <3> QED BY <1>3, <3>2 DEF Stopping, Evaluate
  <2>2. CASE ~Verified
    BY <1>0, <1>1, <1>3, <2>2 DEF Evaluate, BeforeWriting
  <2> QED BY <2>1, <2>2
<1>4. ASSUME NEW c \in Callers, Link(c) \/ Attest(c) \/ CheckAgain(c) PROVE Stopping'
  BY <1>0, <1>1, <1>4 DEF Link, Attest, CheckAgain, BeforeWriting
<1>5. ASSUME NEW c \in Callers, NEW r, Weigh(c, r) PROVE Stopping'
  BY <1>0, <1>1, <1>5 DEF Weigh, BeforeWriting
<1>6. ASSUME NEW c \in Callers, AppendBlock(c) PROVE Stopping'
  <2> DEFINE p == processOf[c]
             b == verdict[c]
  <2>1. /\ b \in Block /\ budget' = Written(budget, b) /\ UNCHANGED processOf
        /\ processOf[c] = p /\ stage[c] = "appending" /\ stage' = [stage EXCEPT ![c] = "attesting"]
    BY <1>0, <1>6 DEF AppendBlock
  <2>2. \A d \in Callers : stage'[d] \in BeforeWriting => d # c /\ stage[d] \in BeforeWriting
    BY <1>0, <2>1 DEF BeforeWriting
  <2>3. \A d \in Callers : processOf[d] = p => stage'[d] \notin BeforeWriting
    BY <1>0, <2>1, <2>2 DEF OnePerProcess, InGovernor, Inside, BeforeWriting
  <2> HIDE DEF p, b
  <2> QED BY <1>2, <2>1, <2>2, <2>3
<1>7. ASSUME NEW p \in Processes, GovernorCrash({c \in Callers : processOf[c] = p})
      PROVE  Stopping'
  <2>1. /\ UNCHANGED processOf /\ \A d \in Callers : stage'[d] \in BeforeWriting => stage[d] \in BeforeWriting
        /\ \A d \in Callers : processOf[d] = p => stage'[d] \notin BeforeWriting
    BY <1>7 DEF GovernorCrash, BeforeWriting
  <2>2. CASE UNCHANGED budget
    BY <1>1, <2>1, <2>2
  <2>3. CASE ~UNCHANGED budget
    <3>1. /\ budget' = Written(budget, CutBlock)
          /\ \E c \in Callers : processOf[c] = p /\ stage[c] = "appending"
      BY <1>7, <2>3 DEF GovernorCrash
    <3> DEFINE b == CutBlock
    <3>2. b \in Block /\ budget' = Written(budget, b)
      BY <3>1, NoVerdictIsBlock
    <3> HIDE DEF b
    <3> QED BY <1>2, <2>1, <3>1, <3>2
  <2> QED BY <2>2, <2>3
<1>8. CASE Quiet
  BY <1>0, <1>1, <1>8 DEF Quiet, BeforeWriting
<1> QED BY <1>3, <1>4, <1>5, <1>6, <1>7, <1>8, StepKinds

(* Fail closed, whatever the processes do to each other: after a block     *)
(* that is not whole or names the wrong one, each process adds at most the *)
(* block that it was about to write.                                       *)
THEOREM BrokenChainSafe == Spec => []BrokenChainStops
<1>1. LedgerInv /\ GovernorTypeOK /\ StopInv => BrokenChainStops
  <2> SUFFICES ASSUME LedgerInv, GovernorTypeOK, StopInv PROVE BrokenChainStops
    OBVIOUS
  <2>1. Cardinality(Owed) \in Nat /\ ProcessesInUse \in Nat /\ Len(budget) \in Nat
    BY OwedFinite, InUseFinite DEF LedgerInv, LedgerTypes, GovernorTypeOK
  <2> QED BY <2>1 DEF StopInv, Stopping, BrokenChainStops, Fine
<1>2. LedgerInv /\ GovernorTypeOK /\ StopInv /\ [Next]_vars => StopInv'
  BY OnePerProcessStep, StoppingStep DEF StopInv, LedgerInv
<1>3. LedgerInv => LedgerTypes
  BY DEF LedgerInv
<1> QED BY <1>1, <1>2, <1>3, LedgerStarts, LedgerStep, GovernorTypesStart, GovernorTypesStep, StopStarts,
      PTL DEF Spec

-----------------------------------------------------------------------------
(* What was spent.  A set of naturals has a least member. *)
LEMMA LeastNatural ==
  ASSUME NEW T, T \subseteq Nat, T # {}
  PROVE  \E x \in T : \A y \in T : x <= y
<1> DEFINE R == {p \in Nat \X Nat : p[1] < p[2]}
<1>1. IsWellFoundedOn(R, Nat)
  <2>1. R = OpToRel(<, Nat)
    BY DEF OpToRel
  <2> QED BY <2>1, NatLessThanWellFounded DEF OpToRel
<1>2. \A x, y \in Nat : y < x => <<y, x>> \in R
  OBVIOUS
<1> HIDE DEF R
<1>3. PICK x \in T : \A y \in T : <<y, x>> \notin R
  BY <1>1, WFMin
<1>4. \A y \in T : ~(y < x)
  BY <1>2, <1>3
<1> QED BY <1>4

(* f adds up the blocks of chain, as far as the n-th. *)
Tallied(chain, n, f) ==
  f[0] = 0 /\ \A i \in 1 .. n : f[i] = f[i - 1] + SpendOf(chain[i])

(* Two sums of chains that begin alike agree as far as the chains do. *)
LEMMA TallyUnique ==
  ASSUME NEW chain, NEW other, NEW k \in Nat, NEW f, NEW g,
         Tallied(chain, k, f), Tallied(other, k, g), \A i \in 1 .. k : other[i] = chain[i]
  PROVE  \A i \in 0 .. k : f[i] = g[i]
<1> DEFINE T == {i \in 0 .. k : f[i] # g[i]}
<1>0. SUFFICES ASSUME T # {} PROVE FALSE
  OBVIOUS
<1>1. PICK x \in T : \A y \in T : x <= y
  <2>1. T \subseteq Nat
    OBVIOUS
  <2> HIDE DEF T
  <2> QED BY <1>0, <2>1, LeastNatural
<1>2. x \in 1 .. k /\ x - 1 \in 0 .. k /\ x - 1 \notin T
  BY <1>1 DEF Tallied
<1>3. f[x - 1] = g[x - 1]
  BY <1>2
<1>4. f[x] = g[x]
  BY <1>2, <1>3 DEF Tallied
<1> QED BY <1>1, <1>4

(* Every chain has a sum. *)
LEMMA TallyExists ==
  ASSUME NEW chain \in Seq(Block)
  PROVE  \E f \in [0 .. Len(chain) -> Nat] : Tallied(chain, Len(chain), f)
<1> DEFINE Sums(n) == \E f \in [0 .. n -> Nat] : Tallied(chain, n, f)
           T == {n \in 0 .. Len(chain) : ~Sums(n)}
<1>1. Len(chain) \in Nat /\ \A i \in 1 .. Len(chain) : chain[i] \in Block
  OBVIOUS
<1>2. \A i \in 1 .. Len(chain) : SpendOf(chain[i]) \in Nat
  BY <1>1 DEF SpendOf, Block
<1>3. Sums(0)
  <2>1. Tallied(chain, 0, [i \in 0 .. 0 |-> 0])
    BY DEF Tallied
  <2> QED BY <2>1
<1>4. ASSUME NEW n \in 1 .. Len(chain), Sums(n - 1) PROVE Sums(n)
  <2>1. PICK f \in [0 .. n - 1 -> Nat] : Tallied(chain, n - 1, f)
    BY <1>4
  <2> DEFINE g == [i \in 0 .. n |-> IF i = n THEN f[n - 1] + SpendOf(chain[n]) ELSE f[i]]
  <2>2. g \in [0 .. n -> Nat]
    BY <1>2
  <2>3. g[0] = 0 /\ \A i \in 1 .. n - 1 : g[i] = g[i - 1] + SpendOf(chain[i])
    BY <2>1 DEF Tallied
  <2>4. g[n] = g[n - 1] + SpendOf(chain[n])
    OBVIOUS
  <2> HIDE DEF g
  <2>5. Tallied(chain, n, g)
    BY <2>3, <2>4 DEF Tallied
  <2> QED BY <2>2, <2>5
<1> HIDE DEF Sums
<1>5. T = {}
  <2> SUFFICES ASSUME T # {} PROVE FALSE
    OBVIOUS
  <2>1. PICK x \in T : \A y \in T : x <= y
    <3>1. T # {} /\ T \subseteq Nat
      BY <1>1
    <3> HIDE DEF T
    <3> QED BY <3>1, LeastNatural
  <2>2. x \in 1 .. Len(chain) /\ x - 1 \notin T
    BY <1>1, <1>3, <2>1
  <2> QED BY <1>1, <1>4, <2>1, <2>2
<1>6. Sums(Len(chain))
  BY <1>1, <1>5
<1> QED BY <1>6 DEF Sums

(* The sum that the governor computes is that of its ledger. *)
LEMMA SpendTallied ==
  budget \in Seq(Block)
    => SpendUpTo \in [0 .. Len(budget) -> Nat] /\ Tallied(budget, Len(budget), SpendUpTo)
<1> SUFFICES ASSUME budget \in Seq(Block)
    PROVE  SpendUpTo \in [0 .. Len(budget) -> Nat] /\ Tallied(budget, Len(budget), SpendUpTo)
  OBVIOUS
<1> DEFINE Sum(f) == f = [n \in 0 .. Len(budget) |->
                            IF n = 0 THEN 0 ELSE f[n - 1] + SpendOf(budget[n])]
<1>1. PICK f \in [0 .. Len(budget) -> Nat] : Tallied(budget, Len(budget), f)
  BY TallyExists
<1>2. Sum(f)
  BY <1>1 DEF Tallied
<1>3. Sum(SpendUpTo)
  BY <1>2 DEF SpendUpTo
<1>4. Tallied(budget, Len(budget), SpendUpTo)
  <2>1. Len(budget) \in Nat /\ DOMAIN SpendUpTo = 0 .. Len(budget)
    BY <1>3
  <2> QED BY <1>3, <2>1 DEF Tallied
<1>5. \A i \in 0 .. Len(budget) : SpendUpTo[i] = f[i]
  BY <1>1, <1>4, TallyUnique
<1> QED BY <1>1, <1>2, <1>3, <1>4, <1>5

(* A block that is appended adds its cost, if it was granted, and changes  *)
(* nothing of what was spent before it.                                    *)
LEMMA SpendGrows ==
  ASSUME budget \in Seq(Block), NEW b \in Block, budget' = Append(budget, b)
  PROVE  /\ Len(budget) \in Nat /\ Len(budget') = Len(budget) + 1
         /\ budget'[Len(budget) + 1] = b
         /\ \A i \in 1 .. Len(budget) : budget'[i] = budget[i]
         /\ \A i \in 0 .. Len(budget) : SpendUpTo'[i] = SpendUpTo[i]
         /\ CurrentSpend \in Nat /\ CurrentSpend' = CurrentSpend + SpendOf(b)
<1>1. /\ budget' \in Seq(Block) /\ Len(budget) \in Nat /\ Len(budget') = Len(budget) + 1
      /\ budget'[Len(budget) + 1] = b /\ \A i \in 1 .. Len(budget) : budget'[i] = budget[i]
  BY AppendProperties
<1>2. SpendUpTo \in [0 .. Len(budget) -> Nat] /\ Tallied(budget, Len(budget), SpendUpTo)
  BY SpendTallied
<1>3. Tallied(budget', Len(budget'), SpendUpTo')
  <2>1. (budget \in Seq(Block))' =>
          (SpendUpTo \in [0 .. Len(budget) -> Nat] /\ Tallied(budget, Len(budget), SpendUpTo))'
    BY SpendTallied, PTL
  <2> QED BY <1>1, <2>1
<1>4. \A i \in 0 .. Len(budget) : SpendUpTo'[i] = SpendUpTo[i]
  <2>1. Tallied(budget', Len(budget), SpendUpTo')
    BY <1>1, <1>3 DEF Tallied
  <2>2. ASSUME NEW other, NEW g, Tallied(other, Len(budget), g),
               \A i \in 1 .. Len(budget) : other[i] = budget[i]
        PROVE  \A i \in 0 .. Len(budget) : SpendUpTo[i] = g[i]
    BY <1>1, <1>2, <2>2, TallyUnique
  <2>3. \A i \in 0 .. Len(budget) : SpendUpTo[i] = SpendUpTo'[i]
    BY <1>1, <2>1, <2>2
  <2> QED BY <2>3
<1>5. CurrentSpend \in Nat /\ CurrentSpend' = SpendUpTo'[Len(budget) + 1]
  BY <1>1, <1>2 DEF CurrentSpend
<1>6. SpendUpTo'[Len(budget) + 1] = SpendUpTo'[Len(budget)] + SpendOf(b)
  BY <1>1, <1>3 DEF Tallied
<1> QED BY <1>1, <1>4, <1>5, <1>6 DEF CurrentSpend

-----------------------------------------------------------------------------
(* As long as no two processes met, one caller at a time is in the         *)
(* governor.                                                               *)
OneInGovernor == \A c, d \in Callers : InGovernor(c) /\ InGovernor(d) => c = d

(* Until it writes, the ledger is the one that it verified ... *)
Prepared ==
  \A c \in Callers :
    stage[c] \in BeforeWriting =>
      Whole(budget) /\ (manifest = NoManifest \/ manifest.blocks = Len(budget))

(* ... and its block names the last one. *)
BlockFits ==
  \A c \in Callers :
    /\ stage[c] = "appending" => verdict[c].prev = HeadOf(budget)
    /\ stage[c] = "attesting" => budget # <<>>

(* The manifest lags behind by the block of the one who has still to       *)
(* attest it.                                                              *)
ManifestFits ==
  /\ budget = <<>> => manifest = NoManifest
  /\ manifest \in {NoManifest, TornManifest} \/ Len(budget) - manifest.blocks \in {0, 1}

BlocksLinked == \A n \in 1 .. Len(budget) : WholeUpTo(budget, n) => Linked(budget, n)

(* What the governor has allowed and not yet written still fits. *)
AllowedFits ==
  \A c \in Callers :
    stage[c] \in {"linking", "appending"} /\ verdict[c].decision = "ALLOW"
      => CurrentSpend + verdict[c].cost <= MaxSessionBudget
Within ==
  \A n \in 1 .. Len(budget) : budget[n].decision = "ALLOW" => SpendUpTo[n] <= MaxSessionBudget

ChainSound == OneInGovernor /\ Prepared /\ BlockFits /\ ManifestFits /\ BlocksLinked
GovernorSound == ChainSound /\ AllowedFits /\ Within
GovernorInv == GovernorTypeOK /\ (met \/ GovernorSound)

LEMMA GovernorStarts == Init => GovernorInv
<1> SUFFICES ASSUME Init PROVE GovernorSound
  BY GovernorTypesStart DEF GovernorInv
<1> QED BY DEF Init, GovernorInit, GovernorSound, ChainSound, OneInGovernor, InGovernor, Inside,
      Prepared, BeforeWriting, BlockFits, ManifestFits, BlocksLinked, AllowedFits, Within

(* A block that is written to a whole ledger is appended to it. *)
LEMMA BlockAppended ==
  ASSUME budget \in Seq(Block), Whole(budget), NEW b, b \in Block
  PROVE  Written(budget, b) = Append(budget, b)
<1>1. Len(budget) \in Nat /\ (budget # <<>> => Len(budget) \in 1 .. Len(budget))
  BY EmptySeq
<1>2. budget = <<>> \/ budget[Len(budget)].whole # "cut"
  BY <1>1 DEF Whole, WholeUpTo
<1> QED BY <1>2 DEF Written

LEMMA LinkedGrows ==
  ASSUME budget \in Seq(Block), BlocksLinked, NEW b, b \in Block, budget' = Append(budget, b),
         b.whole = "yes" => b.prev = HeadOf(budget)
  PROVE  /\ BlocksLinked'
         /\ (Whole(budget) /\ b.whole = "yes") => Whole(budget)'
<1>1. /\ Len(budget) \in Nat /\ Len(budget') = Len(budget) + 1
      /\ budget'[Len(budget) + 1] = b /\ \A i \in 1 .. Len(budget) : budget'[i] = budget[i]
  BY AppendProperties
<1>2. ASSUME NEW n \in 1 .. Len(budget'), WholeUpTo(budget, n)' PROVE Linked(budget, n)'
  <2>1. CASE n \in 1 .. Len(budget)
    <3>1. WholeUpTo(budget, n) /\ (n # 1 => n - 1 \in 1 .. Len(budget))
      BY <1>1, <1>2, <2>1 DEF WholeUpTo
    <3> QED BY <1>1, <2>1, <3>1 DEF BlocksLinked, Linked
  <2>2. CASE n = Len(budget) + 1
    <3>1. b.prev = HeadOf(budget)
      BY <1>1, <1>2, <2>2 DEF WholeUpTo
    <3>2. CASE budget = <<>>
      BY <1>1, <2>2, <3>1, <3>2 DEF HeadOf, Linked
    <3>3. CASE budget # <<>>
      <4>1. Len(budget) \in 1 .. Len(budget) /\ n # 1 /\ n - 1 = Len(budget)
        BY <1>1, <2>2, <3>3, EmptySeq
      <4> QED BY <1>1, <2>2, <3>1, <3>3, <4>1 DEF HeadOf, Linked
    <3> QED BY <3>2, <3>3
  <2> QED BY <1>1, <2>1, <2>2
<1>3. (Whole(budget) /\ b.whole = "yes") => Whole(budget)'
  <2> SUFFICES ASSUME Whole(budget), b.whole = "yes", NEW i \in 1 .. Len(budget) + 1
               PROVE  budget'[i].whole = "yes"
    BY <1>1 DEF Whole, WholeUpTo
  <2> QED BY <1>1 DEF Whole, WholeUpTo
<1> QED BY <1>2, <1>3 DEF BlocksLinked

(* A granted block that still fitted, or one that was not granted, keeps   *)
(* the ledger within its budget.                                           *)
LEMMA WithinGrows ==
  ASSUME budget \in Seq(Block), Within, NEW b, b \in Block, budget' = Append(budget, b),
         b.decision = "ALLOW" => CurrentSpend + b.cost <= MaxSessionBudget
  PROVE  Within'
<1> SUFFICES ASSUME NEW n \in 1 .. Len(budget'), budget'[n].decision = "ALLOW"
             PROVE  SpendUpTo'[n] <= MaxSessionBudget
  BY DEF Within
<1>1. CASE n \in 1 .. Len(budget)
  BY <1>1, SpendGrows DEF Within
<1>2. CASE n = Len(budget) + 1
  <2>1. b.decision = "ALLOW" /\ SpendOf(b) = b.cost
    BY <1>2, SpendGrows DEF SpendOf, Granted
  <2>2. SpendUpTo'[n] = CurrentSpend + b.cost
    BY <1>2, <2>1, SpendGrows DEF CurrentSpend
  <2> QED BY <2>1, <2>2
<1> QED BY <1>1, <1>2, SpendGrows

(* Steps that write neither file and let nobody go on. *)
LEMMA IdleKeepsSound ==
  ASSUME GovernorTypeOK, GovernorSound, UNCHANGED budget,
         manifest' = manifest \/ (manifest' = TornManifest /\ budget # <<>>
                                   /\ \A c \in Callers : stage'[c] \notin BeforeWriting),
         \A c \in Callers : stage'[c] # stage[c] => stage'[c] \notin Inside,
         \A c \in Callers : stage'[c] \in Inside => verdict'[c] = verdict[c]
  PROVE  GovernorSound'
<1> USE DEF GovernorSound, ChainSound
<1>1. \A c \in Callers : stage'[c] \in Inside => stage'[c] = stage[c] /\ verdict'[c] = verdict[c]
  OBVIOUS
<1>2. OneInGovernor'
  BY <1>1 DEF OneInGovernor, InGovernor
<1>3. Whole(budget)' = Whole(budget) /\ CurrentSpend' = CurrentSpend /\ SpendUpTo' = SpendUpTo
      /\ HeadOf(budget)' = HeadOf(budget)
  BY DEF Whole, WholeUpTo, CurrentSpend, SpendUpTo, HeadOf
<1>4. Prepared'
  BY <1>1, <1>3 DEF Prepared, BeforeWriting, Inside
<1>5. BlockFits'
  BY <1>1, <1>3 DEF BlockFits, Inside
<1>6. ManifestFits' /\ BlocksLinked' /\ Within'
  BY <1>3 DEF ManifestFits, BlocksLinked, WholeUpTo, Linked, Within
<1>7. AllowedFits'
  BY <1>1, <1>3 DEF AllowedFits, Inside
<1> QED BY <1>2, <1>4, <1>5, <1>6, <1>7

LEMMA EvaluateKeepsSound ==
  ASSUME GovernorTypeOK, GovernorSound, NEW c \in Callers, Evaluate(c), ~met'
  PROVE  GovernorSound'
<1> USE DEF GovernorSound, ChainSound
<1>1. CASE ~Verified
  <2>1. stage' = [stage EXCEPT ![c] = "refused"] /\ UNCHANGED <<budget, manifest, verdict>>
    BY <1>1 DEF Evaluate
  <2> QED BY <2>1, IdleKeepsSound DEF GovernorTypeOK, Inside
<1>2. CASE Verified
  <2>1. /\ stage' = [stage EXCEPT ![c] = "weighing"] /\ stage[c] = "idle"
        /\ UNCHANGED <<processOf, budget, manifest, verdict>>
    BY <1>2 DEF Evaluate
  <2>2. \A d \in Callers : ~InGovernor(d)
    BY DEF Evaluate, ClassLockFree
  <2>3. stage'[c] = "weighing" /\ \A d \in Callers : d # c => stage'[d] \notin Inside
    BY <2>1, <2>2 DEF InGovernor, GovernorTypeOK
  <2>4. OneInGovernor'
    BY <2>3 DEF OneInGovernor, InGovernor
  <2>5. Prepared'
    <3>1. Whole(budget) /\ (manifest = NoManifest \/ manifest.blocks = Len(budget))
      BY <1>2 DEF Verified, Chained, ManifestFits
    <3>2. (Whole(budget) /\ (manifest = NoManifest \/ manifest.blocks = Len(budget)))'
      BY <2>1, <3>1 DEF Whole, WholeUpTo
    <3> QED BY <3>2 DEF Prepared
  <2>6. BlockFits'
    BY <2>3 DEF BlockFits, Inside
  <2>7. AllowedFits'
    BY <2>3 DEF AllowedFits, Inside
  <2>8. ManifestFits' /\ BlocksLinked' /\ Within'
    BY <2>1 DEF ManifestFits, BlocksLinked, WholeUpTo, Linked, Within, SpendUpTo
  <2> QED BY <2>4, <2>5, <2>6, <2>7, <2>8
<1> QED BY <1>1, <1>2

(* A verdict is drawn up from what is spent at that moment, and a block    *)
(* linked to what is last at that moment.                                  *)
LEMMA DrawingKeepsSound ==
  ASSUME GovernorTypeOK, GovernorSound, NEW c \in Callers,
         Link(c) \/ \E r \in RequestOf(c) : Weigh(c, r)
  PROVE  GovernorSound'
<1> USE DEF GovernorSound, ChainSound
<1>1. /\ UNCHANGED <<budget, manifest>> /\ stage[c] \in {"weighing", "linking"}
      /\ \A d \in Callers : d # c => stage'[d] = stage[d] /\ verdict'[d] = verdict[d]
  BY DEF Link, Weigh, GovernorTypeOK
<1>2. Whole(budget)
  BY <1>1 DEF Prepared, BeforeWriting
<1>3. \A d \in Callers : d # c => stage'[d] \notin Inside
  BY <1>1 DEF OneInGovernor, InGovernor, Inside
<1>4. CASE Link(c)
  <2>1. /\ stage[c] = "linking" /\ stage'[c] = "appending"
        /\ verdict' = [verdict EXCEPT ![c] = [@ EXCEPT !.prev = HeadOf(budget), !.hash = minted']]
    BY <1>2, <1>4 DEF Link, GovernorTypeOK
  <2>2. verdict[c] \in Block
    BY DEF GovernorTypeOK
  <2>3. /\ verdict'[c].prev = HeadOf(budget) /\ verdict'[c].decision = verdict[c].decision
        /\ verdict'[c].cost = verdict[c].cost
    BY <2>1, <2>2 DEF GovernorTypeOK, Block
  <2>4. BlockFits'
    BY <1>1, <1>3, <2>1, <2>3 DEF BlockFits, HeadOf, Inside
  <2>5. AllowedFits'
    <3>1. CurrentSpend' = CurrentSpend
      BY <1>1 DEF CurrentSpend, SpendUpTo
    <3> QED BY <1>3, <2>1, <2>3, <3>1 DEF AllowedFits, Inside
  <2>6. OneInGovernor'
    BY <1>3 DEF OneInGovernor, InGovernor
  <2>7. Prepared'
    BY <1>1, <1>2, <1>3 DEF Prepared, BeforeWriting, Inside, Whole, WholeUpTo
  <2>8. ManifestFits' /\ BlocksLinked' /\ Within'
    BY <1>1 DEF ManifestFits, BlocksLinked, WholeUpTo, Linked, Within, SpendUpTo
  <2> QED BY <2>4, <2>5, <2>6, <2>7, <2>8
<1>5. ASSUME NEW r \in RequestOf(c), Weigh(c, r) PROVE GovernorSound'
  <2>1. /\ stage[c] = "weighing" /\ stage'[c] = "linking"
        /\ verdict' = [verdict EXCEPT ![c] = [@ EXCEPT !.decision = Decide(r), !.cost = r.cost]]
    BY <1>2, <1>5 DEF Weigh, GovernorTypeOK
  <2>2. verdict[c] \in Block
    BY DEF GovernorTypeOK
  <2>3. verdict'[c].decision = Decide(r) /\ verdict'[c].cost = r.cost
    BY <2>1, <2>2 DEF GovernorTypeOK, Block
  <2>4. BlockFits'
    BY <1>3, <2>1 DEF BlockFits, Inside
  <2>5. AllowedFits'
    <3>1. CurrentSpend' = CurrentSpend
      BY <1>1 DEF CurrentSpend, SpendUpTo
    <3>2. Decide(r) = "ALLOW" => CurrentSpend + r.cost <= MaxSessionBudget
      BY DEF Decide
    <3> QED BY <1>3, <2>3, <3>1, <3>2 DEF AllowedFits, Inside
  <2>6. OneInGovernor'
    BY <1>3 DEF OneInGovernor, InGovernor
  <2>7. Prepared'
    BY <1>1, <1>2, <1>3 DEF Prepared, BeforeWriting, Inside, Whole, WholeUpTo
  <2>8. ManifestFits' /\ BlocksLinked' /\ Within'
    BY <1>1 DEF ManifestFits, BlocksLinked, WholeUpTo, Linked, Within, SpendUpTo
  <2> QED BY <2>4, <2>5, <2>6, <2>7, <2>8
<1> QED BY <1>4, <1>5

LEMMA AppendBlockKeepsSound ==
  ASSUME GovernorTypeOK, GovernorSound, NEW c \in Callers, AppendBlock(c)
  PROVE  GovernorSound'
<1> USE DEF GovernorSound, ChainSound
<1> DEFINE b == verdict[c]
<1>1. /\ stage[c] = "appending" /\ b \in Block /\ budget \in Seq(Block) /\ b.prev = HeadOf(budget)
      /\ Whole(budget) /\ (manifest = NoManifest \/ manifest.blocks = Len(budget))
      /\ b.decision = "ALLOW" => CurrentSpend + b.cost <= MaxSessionBudget
      /\ stage' = [stage EXCEPT ![c] = "attesting"] /\ UNCHANGED <<manifest, verdict>>
  BY DEF AppendBlock, BlockFits, Prepared, BeforeWriting, AllowedFits, GovernorTypeOK
<1>2. budget' = Written(budget, b)
  BY DEF AppendBlock
<1>3. \A d \in Callers : d # c => stage'[d] \notin Inside
  BY <1>1 DEF OneInGovernor, InGovernor, Inside, GovernorTypeOK
<1>4. stage'[c] = "attesting"
  BY <1>1 DEF GovernorTypeOK
<1> HIDE DEF b
<1>5. budget' = Append(budget, b)
  BY <1>1, <1>2, BlockAppended
<1>6. BlocksLinked' /\ Within'
  BY <1>1, <1>5, LinkedGrows, WithinGrows
<1>7. Len(budget) \in Nat /\ Len(budget)' = Len(budget) + 1 /\ budget' # <<>>
  BY <1>1, <1>5, AppendProperties
<1>8. ManifestFits'
  BY <1>1, <1>7 DEF ManifestFits
<1>9. OneInGovernor' /\ Prepared' /\ BlockFits' /\ AllowedFits'
  BY <1>3, <1>4, <1>7 DEF OneInGovernor, InGovernor, Prepared, BeforeWriting, BlockFits, AllowedFits, Inside
<1> QED BY <1>6, <1>8, <1>9

LEMMA AttestKeepsSound ==
  ASSUME GovernorTypeOK, GovernorSound, NEW c \in Callers, Attest(c) \/ CheckAgain(c)
  PROVE  GovernorSound'
<1> USE DEF GovernorSound, ChainSound
<1>1. CASE Attest(c)
  <2>1. /\ stage[c] = "attesting" /\ stage' = [stage EXCEPT ![c] = "checking"]
        /\ manifest' = [blocks |-> Len(budget), head |-> verdict[c].hash]
        /\ UNCHANGED <<budget, verdict>>
    BY <1>1 DEF Attest
  <2>2. budget # <<>> /\ Len(budget) \in Nat
    BY <2>1 DEF BlockFits, GovernorTypeOK
  <2>3. stage'[c] = "checking" /\ \A d \in Callers : d # c => stage'[d] \notin Inside
    BY <2>1 DEF OneInGovernor, InGovernor, Inside, GovernorTypeOK
  <2>4. ManifestFits'
    BY <2>1, <2>2 DEF ManifestFits
  <2>5. OneInGovernor' /\ Prepared' /\ BlockFits' /\ AllowedFits'
    BY <2>3 DEF OneInGovernor, InGovernor, Prepared, BeforeWriting, BlockFits, AllowedFits, Inside
  <2>6. BlocksLinked' /\ Within'
    BY <2>1 DEF BlocksLinked, WholeUpTo, Linked, Within, SpendUpTo
  <2> QED BY <2>4, <2>5, <2>6
<1>2. CASE CheckAgain(c)
  <2>1. /\ stage' \in {[stage EXCEPT ![c] = "answered"], [stage EXCEPT ![c] = "refused"]}
        /\ UNCHANGED <<budget, manifest, verdict>>
    BY <1>2 DEF CheckAgain
  <2> QED BY <2>1, IdleKeepsSound DEF GovernorTypeOK, Inside
<1> QED BY <1>1, <1>2

LEMMA CrashKeepsGovernor ==
  ASSUME GovernorTypeOK, GovernorSound, NEW p \in Processes,
         GovernorCrash({c \in Callers : processOf[c] = p})
  PROVE  GovernorSound'
<1> USE DEF GovernorSound, ChainSound
<1>1. \A c \in Callers : /\ stage'[c] # stage[c] => stage'[c] = "idle"
                         /\ stage'[c] # "idle" => verdict'[c] = verdict[c] /\ processOf[c] # p
  BY DEF GovernorCrash
<1>2. CASE budget' = budget /\ manifest' = manifest
  BY <1>1, <1>2, IdleKeepsSound DEF Inside
<1>3. CASE manifest' # manifest
  <2>1. PICK c \in Callers : processOf[c] = p /\ stage[c] = "attesting"
    BY <1>3 DEF GovernorCrash
  <2>2. manifest' = TornManifest /\ budget # <<>>
    BY <1>3, <2>1 DEF GovernorCrash, BlockFits
  <2>3. \A d \in Callers : stage'[d] \notin Inside /\ ~(processOf[d] = p /\ stage[d] = "appending")
    BY <1>1, <2>1 DEF OneInGovernor, InGovernor, Inside
  <2>4. budget' = budget
    BY <2>3 DEF GovernorCrash
  <2> QED BY <1>1, <2>2, <2>3, <2>4, IdleKeepsSound DEF BeforeWriting, Inside
<1>4. CASE budget' # budget
  <2> DEFINE b == CutBlock
  <2>1. PICK c \in Callers : processOf[c] = p /\ stage[c] = "appending"
    BY <1>4 DEF GovernorCrash
  <2>2. budget' = Written(budget, b)
    BY <1>4 DEF GovernorCrash
  <2>3. \A d \in Callers : stage'[d] \notin Inside /\ ~(processOf[d] = p /\ stage[d] = "attesting")
    BY <1>1, <2>1 DEF OneInGovernor, InGovernor, Inside
  <2>4. UNCHANGED manifest
    BY <2>3 DEF GovernorCrash
  <2>5. /\ Whole(budget) /\ (manifest = NoManifest \/ manifest.blocks = Len(budget))
        /\ budget \in Seq(Block)
    BY <2>1 DEF Prepared, BeforeWriting, GovernorTypeOK
  <2>6. b \in Block /\ b.whole = "cut" /\ b.decision = "DENY"
    BY NoVerdictIsBlock DEF CutBlock, NoVerdict
  <2> HIDE DEF b
  <2>7. budget' = Append(budget, b)
    BY <2>2, <2>5, <2>6, BlockAppended
  <2>8. BlocksLinked' /\ Within'
    BY <2>5, <2>6, <2>7, LinkedGrows, WithinGrows
  <2>9. Len(budget) \in Nat /\ Len(budget)' = Len(budget) + 1 /\ budget' # <<>>
    BY <2>5, <2>6, <2>7, AppendProperties
  <2>10. ManifestFits'
    BY <2>4, <2>5, <2>9 DEF ManifestFits
  <2>11. OneInGovernor' /\ Prepared' /\ BlockFits' /\ AllowedFits'
    BY <2>3 DEF OneInGovernor, InGovernor, Prepared, BeforeWriting, BlockFits, AllowedFits, Inside
  <2> QED BY <2>8, <2>10, <2>11
<1> QED BY <1>2, <1>3, <1>4

LEMMA GovernorNext == LedgerInv /\ GovernorInv /\ [Next]_vars => GovernorInv'
<1> SUFFICES ASSUME LedgerTypes, GovernorInv, [Next]_vars, ~met' PROVE GovernorSound'
  BY GovernorTypesStep DEF LedgerInv, GovernorInv
<1>1. GovernorTypeOK
  BY DEF GovernorInv
<1>2. met => met'
  BY <1>1, StepKinds DEF Quiet, Evaluate, Link, AppendBlock, Attest, CheckAgain, Weigh, GovernorCrash
<1>3. GovernorSound
  BY <1>2 DEF GovernorInv
<1>4. CASE Quiet
  <2>1. PICK S \in SUBSET Callers :
          /\ stage' = [c \in Callers |-> IF c \in S THEN "idle" ELSE stage[c]]
          /\ verdict' = [c \in Callers |-> IF c \in S THEN NoVerdict ELSE verdict[c]]
    BY <1>4 DEF Quiet
  <2>2. UNCHANGED <<budget, manifest>>
    BY <1>4 DEF Quiet
  <2> QED BY <1>1, <1>3, <2>1, <2>2, IdleKeepsSound DEF Inside
<1> QED BY <1>1, <1>3, <1>4, StepKinds, EvaluateKeepsSound, DrawingKeepsSound, AppendBlockKeepsSound,
      AttestKeepsSound, CrashKeepsGovernor

(* The governor's blocks form one chain, as far as the first that was cut  *)
(* short and unless two processes met in the governor: a crash never lets  *)
(* another name the same predecessor.                                      *)
THEOREM BudgetSafe == Spec => []BudgetChained
<1>1. GovernorInv => BudgetChained
  BY DEF GovernorInv, GovernorSound, ChainSound, BlocksLinked, BudgetChained
<1> QED BY <1>1, LedgerStarts, LedgerStep, GovernorStarts, GovernorNext, PTL DEF Spec

(* A crash between the two writes loses the attestation of one block, and  *)
(* the ledger is not written again after it, unless two processes met.     *)
THEOREM AttestationSafe == Spec => []AttestedButOne
<1>1. GovernorInv => AttestedButOne
  BY DEF GovernorInv, GovernorSound, ChainSound, ManifestFits, AttestedButOne
<1> QED BY <1>1, LedgerStarts, LedgerStep, GovernorStarts, GovernorNext, PTL DEF Spec

(* Whatever the callers, the costs and the crashes, no block allowed       *)
(* without an emergency ever took the session over its budget, unless two  *)
(* processes met: a verdict is written before the next one is drawn up.    *)
THEOREM SpendSafe == Spec => []WithinBudget
<1>1. GovernorInv => WithinBudget
  BY DEF GovernorInv, GovernorSound, Within, WithinBudget
<1> QED BY <1>1, LedgerStarts, LedgerStep, GovernorStarts, GovernorNext, PTL DEF Spec
===============================================================================
