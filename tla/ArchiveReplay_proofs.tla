------------------------ MODULE ArchiveReplay_proofs ------------------------
(***************************************************************************)
(* Proofs about ArchiveReplay, for every number of messages and whatever   *)
(* the archive holds from before.                                          *)
(***************************************************************************)
EXTENDS ArchiveReplay, SequenceLemmas

-----------------------------------------------------------------------------
(* The parts of the state.                                                 *)

\* Our recording is one of the archive's; each is a sequence of numbers.
LEMMA ArchiveType ==
  ASSUME TypeOK
  PROVE  /\ Ours \in Nat /\ Ours >= 1 /\ DOMAIN archive = 1 .. Ours
         /\ \A id \in 1 .. Ours : archive[id] \in Seq(Number)
         /\ received \in Seq(Number) /\ offered \in Seq(Number)
         /\ MessageCount \in Nat /\ MessageCount >= 1
<1>1. archive \in Seq(Seq(Number)) /\ archive # << >>
  BY DEF TypeOK
<1>2. MessageCount \in Nat /\ MessageCount >= 1
  BY CountAssumption
<1>3. Len(archive) \in Nat /\ DOMAIN archive = 1 .. Len(archive) /\ Len(archive) # 0
  BY <1>1, InQueue
<1>4. \A id \in 1 .. Len(archive) : archive[id] \in Seq(Number)
  BY <1>1, ElementOfSeq
<1>5. received \in Seq(Number) /\ offered \in Seq(Number)
  BY DEF TypeOK
<1> QED
  BY <1>2, <1>3, <1>4, <1>5 DEF Ours

\* What was received begins our recording, and so does our recording what was offered.
LEMMA ReceivedWasOffered ==
  ASSUME TypeOK, ReplayFollows, chosen = Ours
  PROVE  Len(received) <= Len(offered) /\ \A i \in 1 .. Len(received) : received[i] = offered[i]
<1>1. /\ archive[Ours] \in Seq(Number) /\ received \in Seq(Number) /\ offered \in Seq(Number)
      /\ Ours \in DOMAIN archive
  BY ArchiveType
<1>2. /\ Len(archive[Ours]) <= Len(offered)
      /\ \A i \in 1 .. Len(archive[Ours]) : archive[Ours][i] = offered[i]
  BY <1>1, PrefixElements DEF ReplayFollows
<1>3. Len(received) \in Nat /\ Len(archive[Ours]) \in Nat /\ Len(offered) \in Nat
  BY <1>1, LenProperties
<1>4. CASE received = << >>
  BY <1>3, <1>4, EmptySeq
<1>5. CASE received # << >>
  <2>1. IsPrefix(received, archive[Ours])
    BY <1>5 DEF ReplayFollows
  <2>2. /\ Len(received) <= Len(archive[Ours])
        /\ \A i \in 1 .. Len(received) : received[i] = archive[Ours][i]
    BY <1>1, <2>1, PrefixElements
  <2> QED
    BY <1>2, <1>3, <2>2
<1> QED
  BY <1>4, <1>5

-----------------------------------------------------------------------------
(* The steps.                                                              *)

\* Nothing is offered yet, and our recording is empty.
LEMMA InitStep == Init => ReplayInv
<1> SUFFICES ASSUME Init PROVE ReplayInv
  OBVIOUS
<1> USE DEF Init
<1>1. PICK recordings \in Older : archive = Append(recordings, << >>)
  OBVIOUS
<1>2. recordings \in Seq(Seq(Number)) /\ << >> \in Seq(Number)
  BY OlderAssumption, EmptySeq DEF Number
<1>3. /\ archive \in Seq(Seq(Number)) /\ Len(archive) = Len(recordings) + 1
      /\ archive[Len(recordings) + 1] = << >> /\ Len(recordings) \in Nat
  BY <1>1, <1>2, AppendToQueue, LenProperties
<1>4. TypeOK
  BY <1>2, <1>3, EmptySeq, CountAssumption DEF TypeOK
<1>5. OffersInOrder
  BY CountAssumption, EmptySeq DEF OffersInOrder, ToSet
<1>6. ReplayFollows
  <2>1. archive[Ours] = << >>
    BY <1>3 DEF Ours
  <2>2. IsPrefix(<< >>, << >>)
    <3>1. << >> \in Seq(Number) /\ Len(<< >>) = 0
      BY EmptySeq
    <3> QED
      BY <3>1 DEF IsPrefix
  <2> QED
    BY <2>1, <2>2 DEF ReplayFollows
<1> QED
  BY <1>4, <1>5, <1>6 DEF ReplayInv, VerdictGiven, Passed

\* An accepted offer: the next number comes last.
LEMMA OfferAcceptedStep ==
  ASSUME ReplayInv, OfferAccepted
  PROVE  ReplayInv'
<1> USE DEF ReplayInv
<1>1. /\ pc = "publish" /\ pc' = IF next + 1 = MessageCount THEN "find" ELSE "publish"
      /\ next' = next + 1 /\ published' = published + 1 /\ offered' = Append(offered, next)
      /\ UNCHANGED <<received, chosen, verdict, archive, open>>
  BY DEF OfferAccepted, Advance, Goto
<1>2. /\ next \in Nat /\ next < MessageCount /\ next \in Number /\ MessageCount \in Nat
      /\ offered \in Seq(Number) /\ Len(offered) \in Nat
  <2>1. next \in 0 .. MessageCount /\ next # MessageCount /\ offered \in Seq(Number)
    BY <1>1 DEF TypeOK, OffersInOrder
  <2> QED
    BY <2>1, CountAssumption, LenProperties DEF Number
<1>3. /\ offered' \in Seq(Number) /\ Len(offered') = Len(offered) + 1
      /\ ToSet(offered') = ToSet(offered) \cup {next}
      /\ \A i \in 1 .. Len(offered) + 1 :
           offered'[i] = IF i <= Len(offered) THEN offered[i] ELSE next
  BY <1>1, <1>2, AppendToQueue
<1>4. TypeOK'
  <2>1. next' \in 0 .. MessageCount
    BY <1>1, <1>2
  <2>2. pc' \in {"publish", "find"}
    BY <1>1
  <2> QED
    BY <1>1, <1>3, <2>1, <2>2 DEF TypeOK
<1>5. OffersInOrder'
  <2>1. ToSet(offered') \subseteq 0 .. next' - 1
    BY <1>1, <1>2, <1>3 DEF OffersInOrder
  <2>2. ASSUME 0 .. next' - 1 \subseteq ToSet(offered')
        PROVE  Len(offered') = next' /\ \A i \in 1 .. next' : offered'[i] = i - 1
    <3>1. 0 .. next - 1 \subseteq ToSet(offered)
      BY <1>1, <1>2, <1>3, <2>2
    <3>2. Len(offered) = next /\ \A i \in 1 .. next : offered[i] = i - 1
      BY <3>1 DEF OffersInOrder
    <3> QED
      BY <1>1, <1>2, <1>3, <3>2
  <2>3. /\ pc' = "connect" => next' = 0
        /\ next' = MessageCount <=> pc' \notin {"connect", "publish"}
        /\ published' = Len(offered')
    BY <1>1, <1>2, <1>3 DEF OffersInOrder
  <2> QED
    BY <2>1, <2>2, <2>3 DEF OffersInOrder
<1>6. ReplayFollows'
  <2>1. archive[Ours] \in Seq(Number) /\ IsPrefix(archive[Ours], offered)
    BY ArchiveType DEF ReplayFollows
  <2>2. /\ Len(archive[Ours]) <= Len(offered) /\ Len(archive[Ours]) \in Nat
        /\ \A i \in 1 .. Len(archive[Ours]) : archive[Ours][i] = offered[i]
    BY <1>2, <2>1, PrefixElements, LenProperties
  <2>3. IsPrefix(archive[Ours], offered')
    BY <1>2, <1>3, <2>1, <2>2, PrefixElements
  <2>4. pc' \notin {"start", "poll", "judge"}
    BY <1>1
  <2> QED
    BY <1>1, <2>3, <2>4 DEF ReplayFollows, Ours
<1>7. VerdictGiven'
  BY <1>1 DEF VerdictGiven, Passed
<1> QED
  BY <1>4, <1>5, <1>6, <1>7

\* An offer that fails for good: its number is missing from now on.
LEMMA OfferFailedStep ==
  ASSUME ReplayInv, OfferFailed
  PROVE  ReplayInv'
<1> USE DEF ReplayInv
<1>1. /\ pc = "publish" /\ pc' = IF next + 1 = MessageCount THEN "find" ELSE "publish"
      /\ next' = next + 1 /\ UNCHANGED <<published, offered>>
      /\ UNCHANGED <<received, chosen, verdict, archive, open>>
  BY DEF OfferFailed, Advance, Goto
<1>2. next \in Nat /\ next < MessageCount /\ MessageCount \in Nat
  <2>1. next \in 0 .. MessageCount /\ next # MessageCount
    BY <1>1 DEF TypeOK, OffersInOrder
  <2> QED
    BY <2>1, CountAssumption
<1>3. TypeOK'
  <2>1. next' \in 0 .. MessageCount
    BY <1>1, <1>2
  <2>2. pc' \in {"publish", "find"}
    BY <1>1
  <2> QED
    BY <1>1, <2>1, <2>2 DEF TypeOK
<1>4. OffersInOrder'
  <2>1. next \notin ToSet(offered) /\ next \in 0 .. next' - 1
    BY <1>1, <1>2 DEF OffersInOrder
  <2>2. ToSet(offered') \subseteq 0 .. next' - 1
    BY <1>1, <1>2 DEF OffersInOrder
  <2> QED
    BY <1>1, <1>2, <2>1, <2>2 DEF OffersInOrder
<1>5. ReplayFollows'
  BY <1>1 DEF ReplayFollows, Ours
<1>6. VerdictGiven'
  BY <1>1 DEF VerdictGiven, Passed
<1> QED
  BY <1>3, <1>4, <1>5, <1>6

\* The archive writes one more of the messages offered.
LEMMA RecordStep ==
  ASSUME ReplayInv, Record
  PROVE  ReplayInv'
<1> USE DEF ReplayInv
<1> DEFINE ours == archive[Ours]
           msg  == offered[Len(ours) + 1]
<1>1. /\ Len(ours) < Len(offered) /\ archive' = [archive EXCEPT ![Ours] = Append(ours, msg)]
      /\ UNCHANGED <<pc, next, published, received, chosen, verdict, offered, open>>
  BY DEF Record, progVars
<1>2. /\ ours \in Seq(Number) /\ offered \in Seq(Number) /\ received \in Seq(Number)
      /\ Ours \in 1 .. Len(archive) /\ DOMAIN archive = 1 .. Len(archive)
      /\ Len(ours) \in Nat /\ Len(offered) \in Nat /\ archive \in Seq(Seq(Number))
  <2>1. /\ Ours \in 1 .. Ours /\ DOMAIN archive = 1 .. Ours /\ archive \in Seq(Seq(Number))
        /\ received \in Seq(Number) /\ offered \in Seq(Number)
    <3>1. archive \in Seq(Seq(Number))
      BY DEF TypeOK
    <3> QED
      BY <3>1, ArchiveType
  <2>2. ours \in Seq(Number)
    BY <2>1, ArchiveType
  <2> QED
    BY <2>1, <2>2, LenProperties DEF Ours
<1>3. msg \in Number
  BY <1>1, <1>2, ElementOfSeq
<1> HIDE DEF msg
<1>4. /\ Append(ours, msg) \in Seq(Number) /\ Len(Append(ours, msg)) = Len(ours) + 1
      /\ \A i \in 1 .. Len(ours) + 1 : Append(ours, msg)[i] = IF i <= Len(ours) THEN ours[i] ELSE msg
  BY <1>2, <1>3, AppendToQueue
<1>5. /\ archive' \in Seq(Seq(Number)) /\ Len(archive') = Len(archive) /\ archive' # << >>
      /\ DOMAIN archive' = DOMAIN archive /\ Ours' = Ours
      /\ archive'[Ours] = Append(ours, msg)
      /\ \A id \in DOMAIN archive : id # Ours => archive'[id] = archive[id]
  <2>1. /\ archive' \in Seq(Seq(Number)) /\ Len(archive') = Len(archive)
        /\ archive'[Ours] = Append(ours, msg)
        /\ \A id \in DOMAIN archive : id # Ours => archive'[id] = archive[id]
    BY <1>1, <1>2, <1>4, ExceptSeq
  <2>2. DOMAIN archive' = DOMAIN archive /\ archive' # << >>
    BY <1>2, <2>1, InQueue, LenProperties DEF TypeOK
  <2> QED
    BY <2>1, <2>2 DEF Ours
<1>6. TypeOK'
  BY <1>1, <1>5 DEF TypeOK
<1>7. OffersInOrder'
  BY <1>1 DEF OffersInOrder
<1>8. ReplayFollows'
  <2>1. Len(ours) <= Len(offered) /\ \A i \in 1 .. Len(ours) : ours[i] = offered[i]
    BY <1>2, PrefixElements DEF ReplayFollows
  <2>2. IsPrefix(Append(ours, msg), offered)
    <3>1. \A i \in 1 .. Len(ours) + 1 : Append(ours, msg)[i] = offered[i]
      BY <1>2, <1>4, <2>1 DEF msg
    <3>2. Len(ours) + 1 <= Len(offered)
      BY <1>1, <1>2
    <3> QED
      BY <1>2, <1>4, <3>1, <3>2, PrefixElements
  <2>3. ASSUME received # << >>, chosen = Ours
        PROVE  IsPrefix(received, Append(ours, msg))
    <3>1. IsPrefix(received, ours)
      BY <2>3 DEF ReplayFollows
    <3>2. Len(received) <= Len(ours) /\ \A i \in 1 .. Len(received) : received[i] = ours[i]
      BY <1>2, <3>1, PrefixElements
    <3>3. Len(received) \in Nat
      BY <1>2, LenProperties
    <3>4. /\ Len(received) <= Len(ours) + 1
          /\ \A i \in 1 .. Len(received) : received[i] = Append(ours, msg)[i]
      BY <1>2, <1>4, <3>2, <3>3
    <3> QED
      BY <1>2, <1>4, <3>4, PrefixElements
  <2>4. received = << >> \/ (chosen \in DOMAIN archive' /\ IsPrefix(received, archive'[chosen]))
    BY <1>5, <2>3 DEF ReplayFollows
  <2> QED
    BY <1>1, <1>5, <2>2, <2>4 DEF ReplayFollows
<1>9. VerdictGiven'
  BY <1>1, <1>5 DEF VerdictGiven, Passed, Passes, FirstValue, LastValue
<1> QED
  BY <1>6, <1>7, <1>8, <1>9

\* The last of the recordings listed is one of the archive's.
LEMMA FindRecordingStep ==
  ASSUME ReplayInv, FindRecording
  PROVE  ReplayInv'
<1> USE DEF ReplayInv
<1>1. /\ pc = "find" /\ pc' = "start" /\ Listed # {} /\ chosen' = Max(Listed)
      /\ UNCHANGED <<next, published, received, verdict, offered, archive, open>>
  BY DEF FindRecording, Goto
<1>2. chosen' \in DOMAIN archive /\ chosen' \in Nat
  <2>1. Ours \in Int /\ Listed \in SUBSET Int /\ \A id \in Listed : id \in 1 .. Ours /\ id <= Ours
    BY ArchiveType DEF Listed
  <2>2. Max(Listed) \in Listed
    BY <1>1, <2>1, MaxOfSet
  <2>3. Max(Listed) \in 1 .. Ours
    BY <2>1, <2>2
  <2>4. DOMAIN archive = 1 .. Ours /\ Ours \in Nat
    BY ArchiveType
  <2> QED
    BY <1>1, <2>3, <2>4
<1> QED
  BY <1>1, <1>2 DEF TypeOK, OffersInOrder, ReplayFollows, VerdictGiven, Passed, Ours

\* What is delivered is the beginning of the recording being replayed.
LEMMA PollStep ==
  ASSUME ReplayInv, Poll
  PROVE  ReplayInv'
<1> USE DEF ReplayInv
<1>1. /\ pc = "poll" /\ pc' = "poll"
      /\ UNCHANGED <<next, published, chosen, verdict, offered, archive, open>>
  BY DEF Poll, Goto
<1>2. PICK n \in Len(received) + 1 .. Len(archive[chosen]) :
        received' = SubSeq(archive[chosen], 1, n)
  BY DEF Poll
<1>3. /\ chosen \in DOMAIN archive /\ archive[chosen] \in Seq(Number)
      /\ Len(received) \in Nat /\ Len(archive[chosen]) \in Nat
  <2>1. chosen \in DOMAIN archive
    BY <1>1 DEF ReplayFollows
  <2> QED
    BY <2>1, ArchiveType, LenProperties
<1>4. received' \in Seq(Number) /\ IsPrefix(received', archive[chosen])
  <2>1. \A i \in 1 .. n : archive[chosen][i] \in Number
    BY <1>3, ElementOfSeq
  <2>2. /\ received' \in Seq(Number) /\ Len(received') = n
        /\ \A i \in 1 .. n : received'[i] = archive[chosen][i]
    BY <1>2, <1>3, <2>1, SubSeqProperties
  <2> QED
    BY <1>3, <2>2, PrefixElements
<1> QED
  BY <1>1, <1>3, <1>4 DEF TypeOK, OffersInOrder, ReplayFollows, VerdictGiven, Passed, Ours

\* Every step keeps the invariant.
LEMMA NextStep == ReplayInv /\ [Next]_vars => ReplayInv'
<1> SUFFICES ASSUME ReplayInv, [Next]_vars PROVE ReplayInv'
  OBVIOUS
<1> USE DEF ReplayInv, TypeOK, OffersInOrder, ReplayFollows, VerdictGiven, Passed, Passes,
            FirstValue, LastValue, Ours
<1>1. CASE Connected
  BY <1>1, CountAssumption DEF Connected, Goto
<1>2. CASE StartReplay
  BY <1>2 DEF StartReplay, Goto
<1>3. CASE GiveUp
  BY <1>3 DEF GiveUp, Goto
<1>4. CASE EndPolling
  BY <1>4 DEF EndPolling, Goto
<1>5. CASE Judge
  BY <1>5 DEF Judge, Goto
<1>6. CASE StopRecording
  BY <1>6 DEF StopRecording, progVars
<1>7. CASE PollFailed
  BY <1>7 DEF PollFailed, Goto
<1>8. CASE UNCHANGED vars
  BY <1>8 DEF vars, progVars
<1> QED
  BY <1>1, <1>2, <1>3, <1>4, <1>5, <1>6, <1>7, <1>8, OfferAcceptedStep, OfferFailedStep, RecordStep,
     FindRecordingStep, PollStep DEF Next, Main, TurnAgain

-----------------------------------------------------------------------------
(* The theorems.                                                           *)

\* The inductive invariant of the program and the archive: replay, recording and offers
\* follow one another, and the verdict is about what was received.
THEOREM ReplayInvariant == Spec => []ReplayInv
<1>1. Init => ReplayInv
  BY InitStep
<1>2. ReplayInv /\ [Next]_vars => ReplayInv'
  BY NextStep
<1> QED
  BY <1>1, <1>2, PTL DEF Spec

\* A replay of our recording that passes is complete and in order; one that fails was
\* not: some message was never published, recorded or replayed.  (src/src/replay.rs
\* looks at a count and at the two ends only.)
THEOREM VerdictIsRight == Spec => []VerdictRight
<1>1. ReplayInv => PassIsSound
  <2> SUFFICES ASSUME ReplayInv, Passed, chosen = Ours
               PROVE  received = offered /\ {0, MessageCount - 1} \subseteq ToSet(offered)
    BY DEF PassIsSound
  <2> USE DEF ReplayInv
  <2>1. /\ received \in Seq(Number) /\ offered \in Seq(Number)
        /\ Len(received) = Len(offered) /\ FirstValue = 0 /\ LastValue = MessageCount - 1
    BY ArchiveType DEF VerdictGiven, Passes, OffersInOrder
  <2>2. received = offered
    BY <2>1, ReceivedWasOffered, SeqEqual
  <2>3. received # << >>
    BY <2>1 DEF FirstValue
  <2>4. received[1] = 0 /\ received[Len(received)] = MessageCount - 1
    <3>1. Head(received) = received[1]
      BY <2>1, <2>3, TailOfQueue
    <3> QED
      BY <2>1, <2>3, <3>1 DEF FirstValue, LastValue, Last
  <2>5. 1 \in 1 .. Len(received) /\ Len(received) \in 1 .. Len(received)
    BY <2>1, <2>3, InQueue
  <2>6. ToSet(received) = {received[i] : i \in 1 .. Len(received)}
    BY <2>1, InQueue
  <2> QED
    BY <2>2, <2>4, <2>5, <2>6
<1>2. ReplayInv => NoFalseAlarm
  <2> SUFFICES ASSUME ReplayInv, verdict = "unexpected_count", chosen = Ours,
                      \A n \in Number : n \in ToSet(offered) /\ n \in ToSet(received)
               PROVE  FALSE
    BY DEF NoFalseAlarm, Number
  <2> USE DEF ReplayInv
  <2>1. MessageCount \in Nat /\ MessageCount >= 1 /\ received \in Seq(Number)
    BY ArchiveType
  <2> DEFINE final == MessageCount - 1
  <2>2. next = MessageCount
    BY DEF VerdictGiven, OffersInOrder
  <2>3. Len(offered) = MessageCount /\ \A i \in 1 .. MessageCount : offered[i] = i - 1
    BY <2>2 DEF OffersInOrder, Number
  <2>4. PICK k \in 1 .. Len(received) : received[k] = final
    <3>1. final \in Number
      BY CountAssumption DEF Number
    <3> HIDE DEF final
    <3>2. final \in ToSet(received)
      BY <3>1
    <3> QED
      BY <2>1, <3>2, InQueue
  <2>5. /\ Len(received) \in Nat /\ Len(received) <= MessageCount
        /\ \A i \in 1 .. Len(received) : received[i] = i - 1
    <3>1. Len(received) \in Nat
      BY <2>1, LenProperties
    <3>2. /\ Len(received) <= Len(offered)
          /\ \A i \in 1 .. Len(received) : received[i] = offered[i]
      BY ReceivedWasOffered
    <3> QED
      BY <2>1, <2>3, <3>1, <3>2
  <2>6. Len(received) = MessageCount
    BY <2>1, <2>4, <2>5
  <2>7. received # << >> /\ Head(received) = 0 /\ Last(received) = MessageCount - 1
    <3>1. received # << >>
      BY <2>1, <2>6, InQueue
    <3>2. Head(received) = received[1]
      BY <2>1, <3>1, TailOfQueue
    <3>3. received[1] = 0 /\ received[MessageCount] = MessageCount - 1
      BY <2>1, <2>5, <2>6
    <3> QED
      BY <2>6, <3>1, <3>2, <3>3 DEF Last
  <2>8. Passes
    BY <2>3, <2>6, <2>7 DEF Passes, FirstValue, LastValue, OffersInOrder
  <2> QED
    BY <2>8 DEF VerdictGiven
<1>3. ReplayInv => VerdictRight
  BY <1>1, <1>2 DEF VerdictRight
<1> QED
  BY <1>3, ReplayInvariant, PTL

=============================================================================
