---------------------------- MODULE ArchiveReplay ----------------------------
(***************************************************************************)
(* The program src/src/replay.rs: publish numbered messages while an Aeron *)
(* archive records them, find the recording, replay it and judge what came *)
(* back.  The publication and the archive are external: an offer may fail, *)
(* the archive may be slow to write, stop writing, hold older recordings   *)
(* of the same stream, refuse a replay, or fall silent.                    *)
(***************************************************************************)
EXTENDS Integers, Sequences, FiniteSetsExt, SequencesExt

CONSTANTS
  MessageCount,   \* MESSAGE_COUNT, 1000000
  ListLimit,      \* how many recordings the program asks the archive for (100)
  Older           \* what the archive may hold from before: a set of sequences of
                  \* recordings, each the messages of an earlier run

ASSUME CountAssumption == MessageCount \in Nat \ {0} /\ ListLimit \in Nat \ {0}
ASSUME OlderAssumption == Older \subseteq Seq(Seq(0 .. MessageCount - 1))

VARIABLES
  pc,          \* where main is
  next,        \* the number of the next message
  published,   \* how many offers were accepted
  received,    \* the messages replayed so far
  chosen,      \* the recording to replay; 0 is the code's -1, none
  verdict,     \* how the program ends
  offered,     \* history: the messages accepted, in order
  archive,     \* external: the messages of each recording, oldest first; ours is last
  open         \* external: whether the archive goes on with ours

progVars == <<pc, next, published, received, chosen, verdict, offered>>
vars     == <<progVars, archive, open>>

Ours == Len(archive)

Init ==
  /\ pc = "connect" /\ next = 0 /\ published = 0 /\ received = << >> /\ chosen = 0
  /\ verdict = "none" /\ offered = << >>
  /\ archive \in {Append(recordings, << >>) : recordings \in Older} /\ open = TRUE

Goto(from, to) == pc = from /\ pc' = to /\ UNCHANGED <<archive, open>>

-----------------------------------------------------------------------------
(* Publishing.                                                             *)

\* The loop waits until the archive has subscribed.
Connected ==
  /\ Goto("connect", "publish")
  /\ UNCHANGED <<next, published, received, chosen, verdict, offered>>

\* Once all messages have had their turn, the publication is dropped.
Advance ==
  /\ Goto("publish", IF next + 1 = MessageCount THEN "find" ELSE "publish")
  /\ next' = next + 1
  /\ UNCHANGED <<received, chosen, verdict>>

OfferAccepted == Advance /\ published' = published + 1 /\ offered' = Append(offered, next)

\* A turn of a loop without effect: not connected yet, a failure that can be retried
\* (the same message again, after a pause), no fragment yet.
TurnAgain == pc \in {"connect", "publish", "poll"} /\ UNCHANGED vars

\* Any other failure leaves the inner loop only: the outer one goes on to the next.
OfferFailed == Advance /\ UNCHANGED <<published, offered>>

\* External: the archive writes what it has not yet written of what was offered; it
\* stops when the publication is gone, or before if it fails.
Record ==
  /\ open /\ Len(archive[Ours]) < Len(offered)
  /\ archive' = [archive EXCEPT ![Ours] = Append(@, offered[Len(@) + 1])]
  /\ UNCHANGED <<progVars, open>>

StopRecording == open /\ pc # "connect" /\ open' = FALSE /\ UNCHANGED <<progVars, archive>>

-----------------------------------------------------------------------------
(* Replaying.                                                              *)

\* The archive lists the first ListLimit recordings; ours is one once it is begun.
Listed == {id \in DOMAIN archive : id <= ListLimit /\ (id = Ours => archive[Ours] # << >>)}

FindRecording ==
  /\ Goto("find", "start")
  /\ Listed # {} /\ chosen' = Max(Listed)
  /\ UNCHANGED <<next, published, received, verdict, offered>>

\* A recording the archive still writes has no stop position: the length asked for is
\* negative then, and the archive may refuse it.
StartReplay ==
  /\ Goto("start", "poll")
  /\ UNCHANGED <<next, published, received, chosen, verdict, offered>>

\* Errors that end the program: the archive lists nothing or answers with an error, or it
\* refuses the replay.
GiveUp ==
  /\ Goto("find", "done") \/ Goto("start", "done")
  /\ verdict' = "error"
  /\ UNCHANGED <<next, published, received, chosen, offered>>

\* One turn of the polling loop delivers any number of fragments.
Poll ==
  /\ Goto("poll", "poll")
  /\ Len(received) < MessageCount
  /\ \E n \in Len(received) + 1 .. Len(archive[chosen]) :
       received' = SubSeq(archive[chosen], 1, n)
  /\ UNCHANGED <<next, published, chosen, verdict, offered>>

\* A poll that fails ends the program too.
PollFailed ==
  /\ Goto("poll", "done")
  /\ Len(received) < MessageCount /\ verdict' = "error"
  /\ UNCHANGED <<next, published, received, chosen, offered>>

\* The loop ends with all messages, or with five seconds without any: there are no
\* more, or the archive is slow.
Enough == Len(received) >= MessageCount

\* Mutant of Stalled: there is no timeout.
NeverStalled == FALSE
Stalled      == ~Enough

EndPolling ==
  /\ Goto("poll", "judge")
  /\ Enough \/ Stalled
  /\ UNCHANGED <<next, published, received, chosen, verdict, offered>>

FirstValue == IF received = << >> THEN -1 ELSE Head(received)
LastValue  == IF received = << >> THEN -1 ELSE Last(received)

\* Mutant of Passes: the ends are not looked at.
PassesCount == Len(received) = published

Passes == Len(received) = published /\ FirstValue = 0 /\ LastValue = MessageCount - 1

Judge ==
  /\ Goto("judge", "done")
  /\ verdict' = IF Passes THEN "all_replayed_correctly" ELSE "unexpected_count"
  /\ UNCHANGED <<next, published, received, chosen, offered>>

-----------------------------------------------------------------------------

Main == \/ Connected \/ OfferAccepted \/ OfferFailed \/ FindRecording \/ StartReplay \/ GiveUp
        \/ Poll \/ EndPolling \/ Judge

Next == \/ Main \/ PollFailed \/ TurnAgain \/ Record \/ StopRecording
        \/ pc = "done" /\ UNCHANGED vars

Spec == Init /\ [][Next]_vars

\* The program runs, the archive subscribes, and an offer is not put off for ever (a
\* turn without effect changes nothing, so fairness of Main says that too).  Nothing
\* obliges the archive to write or to send, nor a poll to fail.
FairSpec == Spec /\ WF_vars(Main)

-----------------------------------------------------------------------------
(* Properties.                                                             *)

Passed == verdict = "all_replayed_correctly"

\* A replay that passes gave back what was published, in order and complete, and
\* what was published had its first and its last message: whether the archive was
\* slow, stopped early, was still writing, or fell silent.  (The messages whose offers
\* failed for good are missing from both; and of a replay of an older recording, when
\* ours is not among the ListLimit listed, nothing is said.)
PassIsSound ==
  Passed /\ chosen = Ours =>
    received = offered /\ {0, MessageCount - 1} \subseteq ToSet(offered)

\* There are no false alarms: if every message was published, recorded and replayed
\* from our recording, the replay passes.
NoFalseAlarm ==
  verdict = "unexpected_count" /\ chosen = Ours => \E n \in 0 .. MessageCount - 1 :
    n \notin ToSet(offered) \/ n \notin ToSet(archive[Ours]) \/ n \notin ToSet(received)

\* The verdict is right about our recording, whichever it is.
VerdictRight == PassIsSound /\ NoFalseAlarm

(* What the proofs need besides (ArchiveReplay_proofs).                    *)

Number == 0 .. MessageCount - 1

TypeOK ==
  /\ pc \in {"connect", "publish", "find", "start", "poll", "judge", "done"}
  /\ next \in 0 .. MessageCount /\ published \in Nat /\ chosen \in Nat
  /\ verdict \in {"none", "error", "all_replayed_correctly", "unexpected_count"}
  /\ received \in Seq(Number) /\ offered \in Seq(Number)
  /\ archive \in Seq(Seq(Number)) /\ archive # << >>

\* What was offered: numbers that have had their turn; all of them, in order, if none
\* of them is missing.
OffersInOrder ==
  /\ pc = "connect" => next = 0
  /\ next = MessageCount <=> pc \notin {"connect", "publish"}
  /\ published = Len(offered)
  /\ ToSet(offered) \subseteq 0 .. next - 1
  /\ 0 .. next - 1 \subseteq ToSet(offered) =>
       Len(offered) = next /\ \A i \in 1 .. next : offered[i] = i - 1

\* The archive writes what was offered and the replay delivers what it has written.
ReplayFollows ==
  /\ IsPrefix(archive[Ours], offered)
  /\ pc \in {"start", "poll", "judge"} => chosen \in DOMAIN archive
  /\ received = << >> \/ (chosen \in DOMAIN archive /\ IsPrefix(received, archive[chosen]))

\* The verdict stands for what was received, and is given last.
VerdictGiven ==
  /\ pc \in {"connect", "publish", "find"} => received = << >>
  /\ verdict # "none" <=> pc = "done"
  /\ Passed => Passes
  /\ verdict = "unexpected_count" => ~Passes /\ chosen \in DOMAIN archive

\* The inductive invariant.
ReplayInv == TypeOK /\ OffersInOrder /\ ReplayFollows /\ VerdictGiven

\* The program ends, if every offer ends, even if messages are missing from the
\* replay: the loop waits for MESSAGE_COUNT messages that will never come.
Ends == <>(pc = "done")
=============================================================================
