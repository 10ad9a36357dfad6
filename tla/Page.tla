--------------------------------- MODULE Page ---------------------------------
(***************************************************************************)
(* The replay panel of src/frontend/app.js, its slider and its picker of   *)
(* whole seconds, for several pages on one server: the journal as the      *)
(* panel needs it, its events' times, and the messages that carry its span *)
(* to the pages and their replay requests back (src/src/ws.rs).            *)
(*                                                                         *)
(* Here a handler takes two steps, under the lock and broadcasting; Server *)
(* has the locks and the channel in detail, Engine the replayed book.      *)
(***************************************************************************)
EXTENDS Integers, Sequences, FiniteSets, FiniteSetsExt, SequencesExt

CONSTANTS
  Pages,
  Commands,        \* the commands, other than replays, that pages send
  Second,          \* how many instants of the clock a second has
  DstBegins,       \* the instants between which the pages' local clocks are ahead,
  DstEnds,
  DstShift,        \* and by how much
  DemoAges,        \* how long ago each order of the demo is stamped, oldest first
  StartTime,       \* bounds: of the clock, and of what pages do
  MaxTime,
  MaxMoves,
  MaxCommands,
  MaxLosses

EventCommands == {"submit_order", "cancel_order"}   \* each journals one event, now

ASSUME CommandsAssumption ==
  Commands \subseteq EventCommands \cup {"seed_demo", "reset", "get_state"}
ASSUME TimeAssumption ==
  /\ Second \in Nat \ {0} /\ StartTime \in Nat /\ MaxTime \in Nat
  /\ DemoAges \in Seq(0 .. StartTime - 2)
\* Local clocks change at a whole second, by whole seconds.
ASSUME DstAssumption ==
  /\ \A t \in {DstBegins, DstEnds, DstShift} : t \in Nat /\ t % Second = 0
  /\ DstBegins + DstShift <= DstEnds
ASSUME BoundsAssumption == MaxMoves \in Nat /\ MaxCommands \in Nat /\ MaxLosses \in Nat

VARIABLES
  now,        \* the clock of the server and of the pages
  journal,    \* the times of the events
  era,        \* history: how often the engine was reset
  open,       \* whether each page's socket is open
  sent,       \* each page's messages to its handler
  pending,    \* what each page's handler still has to broadcast
  inbox,      \* what each page has not handled yet
  range,      \* the slider's ends, with the era and the length of the journal they are of
  slider,     \* where the slider is
  dragged,    \* whether it was moved and not yet let go
  picker,     \* the picker's value, a local time, and the instant it was set to show
  result,     \* the replay result each page shows
  moves, commands, losses   \* how much of the bounds is used up

panelVars  == <<range, slider, dragged, picker, result>>
engineVars == <<journal, era>>
netVars    == <<open, sent, pending, inbox>>
boundVars  == <<moves, commands, losses>>
vars       == <<now, engineVars, netVars, panelVars, boundVars>>

\* What index.html starts with: a slider over 100 ms of 1970 (here, two instants), an
\* empty picker, no result.
NoRange  == [earliest |-> 0, latest |-> 1, era |-> -1, count |-> 0]
NoPicker == [value |-> 0, of |-> -1]
NoResult == [type |-> "none"]

Init ==
  /\ now = StartTime /\ journal = << >> /\ era = 0
  /\ open = [p \in Pages |-> TRUE] /\ sent = [p \in Pages |-> <<[type |-> "get_state"]>>]
  /\ pending = [p \in Pages |-> << >>] /\ inbox = [p \in Pages |-> << >>]
  /\ range = [p \in Pages |-> NoRange] /\ slider = [p \in Pages |-> 1]
  /\ dragged = [p \in Pages |-> FALSE]
  /\ picker = [p \in Pages |-> NoPicker] /\ result = [p \in Pages |-> NoResult]
  /\ moves = 0 /\ commands = 0 /\ losses = 0

Tick == /\ now < MaxTime /\ now' = now + 1
        /\ UNCHANGED <<engineVars, netVars, panelVars, boundVars>>

-----------------------------------------------------------------------------
(* The page's controls.                                                    *)

\* send does nothing unless the socket is open.
Send(p, msg) ==
  /\ commands < MaxCommands
  /\ commands' = commands + 1
  /\ sent' = IF open[p] THEN [sent EXCEPT ![p] = Append(@, msg)] ELSE sent
  /\ UNCHANGED <<now, engineVars, open, pending, inbox, range, slider, picker, result, moves, losses>>

Command(p) == \E type \in Commands : Send(p, [type |-> type]) /\ UNCHANGED dragged

\* A request to replay (from, at and range are history: the control used, the time it
\* stood for, and the span it was chosen from).
Replay(target, from, at, span) ==
  [type |-> "replay", target |-> target, from |-> from, at |-> at, range |-> span]

\* What a local clock shows at an instant: clocks are set ahead and, later, back again,
\* so that the times of the last DstShift before DstEnds are shown a second time.
LocalTime(t) == IF DstBegins <= t /\ t < DstEnds THEN t + DstShift ELSE t

\* The picker's value has the fields of the local time down to the second, and no offset.
\* Mutant of ToLocalInputValue: the fields of UTC, as toISOString has them.
ToISOInputValue(t)   == (t \div Second) * Second
ToLocalInputValue(t) == (LocalTime(t) \div Second) * Second

\* External: new Date(value).getTime() of a local time without an offset takes the offset
\* before the change, be it a time that is shown twice or one that is skipped.
GetTime(value) ==
  IF DstBegins + DstShift <= value /\ value < DstEnds + DstShift THEN value - DstShift ELSE value

\* The slider's input event sets the picker; letting go, its change event, sends a request.
MoveSlider(p) ==
  /\ moves < MaxMoves /\ moves' = moves + 1
  /\ \E t \in range[p].earliest .. range[p].latest :
       /\ t # slider[p]
       /\ slider' = [slider EXCEPT ![p] = t] /\ dragged' = [dragged EXCEPT ![p] = TRUE]
       /\ picker' = [picker EXCEPT ![p] = [value |-> ToLocalInputValue(t), of |-> t]]
  /\ UNCHANGED <<now, engineVars, netVars, range, result, commands, losses>>

\* The user may put the picker at any second of local time; it stands for the instant
\* that the code takes it for.
PickTime(p) ==
  /\ moves < MaxMoves /\ moves' = moves + 1
  /\ \E value \in {second * Second : second \in 0 .. (MaxTime + DstShift) \div Second} :
       picker' = [picker EXCEPT ![p] = [value |-> value, of |-> GetTime(value)]]
  /\ UNCHANGED <<now, engineVars, netVars, range, slider, dragged, result, commands, losses>>

\* A span that arrives while the slider is dragged moves it, and is what is then sent.
ReleaseSlider(p) ==
  /\ dragged[p] /\ dragged' = [dragged EXCEPT ![p] = FALSE]
  /\ Send(p, Replay(slider[p], "slider", slider[p], range[p]))

\* "Replay to this time" does nothing while the picker is empty.
ReplayPicked(p) ==
  /\ picker[p] # NoPicker
  /\ Send(p, Replay(GetTime(picker[p].value), "picker", picker[p].of, range[p]))
  /\ UNCHANGED dragged

ReplayNow(p) == Send(p, Replay(now, "now", now, range[p])) /\ UNCHANGED dragged

-----------------------------------------------------------------------------
(* The server.                                                             *)

\* Mutant of Latest: the last event is looked at.
LatestJournaled == Last(journal)

Earliest == Min(ToSet(journal))
Latest   == Max(ToSet(journal))

\* An empty journal has no span: earliest_ms and latest_ms are null.
JournalInfo ==
  IF journal = << >> THEN [type |-> "journal_info", count |-> 0]
  ELSE [type |-> "journal_info", earliest |-> Earliest, latest |-> Latest, era |-> era,
        count |-> Len(journal)]

UpTo(target) == {i \in DOMAIN journal : journal[i] <= target}

\* What a replay shows: the events up to the target.
ReplayResult(request) ==
  [type |-> "replay_result", request |-> request, era |-> era, count |-> Len(journal),
   shown |-> UpTo(request.target)]

\* Under the lock: the next message of a page, and the reply.  (Acknowledgements and
\* snapshots do not concern the panel.)
Handle(p) ==
  /\ sent[p] # << >> /\ pending[p] = << >>
  /\ sent' = [sent EXCEPT ![p] = Tail(@)]
  /\ LET msg == Head(sent[p])
     IN  /\ journal' = CASE msg.type \in EventCommands -> Append(journal, now)
                         [] msg.type = "seed_demo" ->
                              journal \o [i \in DOMAIN DemoAges |-> now - DemoAges[i]]
                         [] msg.type = "reset" -> << >>
                         [] OTHER -> journal
         /\ era' = IF msg.type = "reset" THEN era + 1 ELSE era
         /\ pending' = CASE msg.type = "seed_demo" ->
                              [pending EXCEPT ![p] = <<JournalInfo'>>]
                         [] msg.type = "get_state" -> [pending EXCEPT ![p] = <<JournalInfo>>]
                         [] msg.type = "replay" ->
                              [pending EXCEPT ![p] = <<ReplayResult(msg)>>]
                         [] OTHER -> pending
  /\ UNCHANGED <<now, open, inbox, panelVars, boundVars>>

\* Unlocked: the reply goes to every page.
Broadcast(p) ==
  /\ pending[p] # << >>
  /\ inbox' = [q \in Pages |-> IF open[q] THEN inbox[q] \o pending[p] ELSE inbox[q]]
  /\ pending' = [pending EXCEPT ![p] = << >>]
  /\ UNCHANGED <<now, engineVars, open, sent, panelVars, boundVars>>

\* A connection ends; what was under way in either direction is gone.  The page opens
\* another after a while and asks for the state; until then it keeps its panel.
Lose(p) ==
  /\ open[p] /\ pending[p] = << >> /\ losses < MaxLosses
  /\ losses' = losses + 1
  /\ open' = [open EXCEPT ![p] = FALSE]
  /\ sent' = [sent EXCEPT ![p] = << >>] /\ inbox' = [inbox EXCEPT ![p] = << >>]
  /\ UNCHANGED <<now, engineVars, pending, panelVars, moves, commands>>

Reopen(p) ==
  /\ ~open[p]
  /\ open' = [open EXCEPT ![p] = TRUE]
  /\ sent' = [sent EXCEPT ![p] = <<[type |-> "get_state"]>>]
  /\ UNCHANGED <<now, engineVars, pending, inbox, panelVars, boundVars>>

-----------------------------------------------------------------------------
(* The page's handler of messages.                                         *)

\* renderJournalInfo: slider and picker go to the end of the new span.  (The span is as
\* old as the message: journal_info follows get_state and seed_demo, not an order.)
SetRange(p, info) ==
  /\ UNCHANGED dragged
  /\ range' = [range EXCEPT ![p] = [earliest |-> info.earliest, latest |-> info.latest,
                                    era |-> info.era, count |-> info.count]]
  /\ slider' = [slider EXCEPT ![p] = info.latest]
  /\ picker' = [picker EXCEPT ![p] = [value |-> ToLocalInputValue(info.latest),
                                      of |-> info.latest]]

\* The span of an empty journal leaves the controls as they are.
OnMessage(p) ==
  /\ inbox[p] # << >>
  /\ inbox' = [inbox EXCEPT ![p] = Tail(@)]
  /\ LET msg == Head(inbox[p])
     IN  \/ msg.type = "journal_info" /\ msg.count > 0 /\ SetRange(p, msg) /\ UNCHANGED result
         \/ msg.type = "journal_info" /\ msg.count = 0 /\ UNCHANGED panelVars
         \/ /\ msg.type = "replay_result"
            /\ result' = [result EXCEPT ![p] = msg] /\ UNCHANGED <<range, slider, dragged, picker>>
  /\ UNCHANGED <<now, engineVars, open, sent, pending, boundVars>>

Next ==
  \/ Tick
  \/ \E p \in Pages :
       \/ Command(p) \/ MoveSlider(p) \/ PickTime(p)
       \/ ReleaseSlider(p) \/ ReplayPicked(p) \/ ReplayNow(p)
       \/ Handle(p) \/ Broadcast(p) \/ Lose(p) \/ Reopen(p) \/ OnMessage(p)

Spec == Init /\ [][Next]_vars

-----------------------------------------------------------------------------
(* Properties.                                                             *)

\* The results shown, as long as the engine has not been reset since the page was
\* told the span the request was chosen from.
Current(res) == res # NoResult /\ res.era = res.request.range.era

\* A replay at the end of the slider leaves out no event the slider's span covers,
\* and what the demo journals late with early times is not left out either.
SliderEndShowsAll ==
  \A p \in Pages : Current(result[p]) =>
    LET req == result[p].request
    IN  req.from = "slider" /\ req.at = req.range.latest
          => 1 .. req.range.count \subseteq result[p].shown

\* Wherever the slider is, a replay shows some event: the span begins at one.
SliderShowsSome ==
  \A p \in Pages : Current(result[p]) =>
    LET req == result[p].request
    IN  req.from = "slider" => result[p].shown # {}

\* The slider reaches what it was told of, and nothing outside.
SliderCoversSpan == SliderEndShowsAll /\ SliderShowsSome

\* How far before the instant that the picker was set to a replay may end: the picker
\* drops the milliseconds and, when the clock shows its times for the second time, falls
\* back to the first.
ShownTwice(t) == DstEnds <= t /\ t < DstEnds + DstShift
PickerLag(t)  == IF ShownTwice(t) THEN Second + DstShift ELSE Second

\* "Replay to this time" shows no event after the instant the picker was set to, and
\* leaves out only events of its last second; in the hour that is repeated when daylight
\* saving time ends, of its last second and hour.  (It does leave those out: a replay to
\* the end of the span, where the picker is put first, may miss the span's last events.)
PickerLagBounded ==
  \A p \in Pages :
    LET res == result[p]
    IN  res # NoResult /\ res.request.from = "picker" /\ res.era = era =>
          \A i \in 1 .. res.count :
            IF i \in res.shown THEN journal[i] <= res.request.at
                              ELSE journal[i] > res.request.at - PickerLag(res.request.at)

(* What the proofs need besides (Page_proofs).                             *)

\* Requests, replies and what the controls hold have their types; times are not negative,
\* as the demo's orders are stamped after the clock's zero.
Span      == [earliest : Nat, latest : Nat, era : Nat \cup {-1}, count : Nat]
ReplayReq == [type : {"replay"}, target : Nat, from : {"slider", "picker", "now"}, at : Nat,
              range : Span]
Request   == ReplayReq \cup [type : Commands \cup {"get_state"}]
NoSpan    == [type : {"journal_info"}, count : {0}]
Info      == [type : {"journal_info"}, earliest : Nat, latest : Nat, era : Nat, count : Nat \ {0}]
Result    == [type : {"replay_result"}, request : ReplayReq, era : Nat, count : Nat, shown : SUBSET Nat]
Reply     == NoSpan \cup Info \cup Result

TypeOK ==
  /\ now \in Nat /\ StartTime <= now /\ journal \in Seq(Nat) /\ era \in Nat
  /\ open \in [Pages -> BOOLEAN] /\ sent \in [Pages -> Seq(Request)]
  /\ pending \in [Pages -> Seq(Reply)] /\ inbox \in [Pages -> Seq(Reply)]
  /\ range \in [Pages -> Span] /\ slider \in [Pages -> Nat] /\ dragged \in [Pages -> BOOLEAN]
  /\ picker \in [Pages -> [value : Nat, of : Nat] \cup {NoPicker}]
  /\ result \in [Pages -> Result \cup {NoResult}]
  /\ moves \in Nat /\ commands \in Nat /\ losses \in Nat

\* A span was that of the first events of its era's journal; as long as the era lasts
\* they are still there.
SpanSound(span, times, e) ==
  /\ span.era <= e /\ span.earliest <= span.latest
  /\ span.era = e =>
       /\ span.count <= Len(times) /\ \A i \in 1 .. span.count : times[i] <= span.latest
       /\ \E i \in 1 .. span.count : times[i] <= span.earliest

\* A replay to the target is one to the instant, but for what the picker loses.
LagBounded(target, at) == target <= at /\ at < target + PickerLag(at)

RequestSound(req) ==
  /\ req.from = "slider" => req.target = req.at /\ req.range.earliest <= req.at
  /\ req.from = "picker" => LagBounded(req.target, req.at)

\* A result holds of its own era whatever was reset since, and of the present journal's
\* first events unless it was.
ResultSound(res, times, e) ==
  /\ RequestSound(res.request) /\ res.era <= e
  /\ res.era = res.request.range.era /\ res.request.from = "slider" =>
       /\ res.shown # {}
       /\ res.request.at = res.request.range.latest =>
            1 .. res.request.range.count \subseteq res.shown
  /\ res.era = e =>
       /\ res.count <= Len(times)
       /\ \A i \in 1 .. res.count : i \in res.shown <=> times[i] <= res.request.target

ReplySound(msg, times, e) ==
  /\ msg.type = "journal_info" /\ msg.count > 0 => SpanSound(msg, times, e)
  /\ msg.type = "replay_result" => ResultSound(msg, times, e)

ControlsSound ==
  \A p \in Pages :
    /\ SpanSound(range[p], journal, era)
    /\ range[p].earliest <= slider[p] /\ slider[p] <= range[p].latest
    /\ picker[p] # NoPicker => LagBounded(GetTime(picker[p].value), picker[p].of)

RequestsSound ==
  \A p \in Pages : \A i \in 1 .. Len(sent[p]) :
    sent[p][i].type = "replay" =>
      RequestSound(sent[p][i]) /\ SpanSound(sent[p][i].range, journal, era)

RepliesSound ==
  \A p \in Pages :
    /\ \A i \in 1 .. Len(pending[p]) : ReplySound(pending[p][i], journal, era)
    /\ \A i \in 1 .. Len(inbox[p]) : ReplySound(inbox[p][i], journal, era)
    /\ result[p] # NoResult => ResultSound(result[p], journal, era)

\* The inductive invariant.
PageInv == TypeOK /\ ControlsSound /\ RequestsSound /\ RepliesSound
=============================================================================
