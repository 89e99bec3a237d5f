----------------------------- MODULE Questions -----------------------------
(***************************************************************************)
(* A question put to a computation of the server: a subject, then one      *)
(* input of it.  What the subject's module promises of its answers is an   *)
(* invariant of the question.  MCComputations adds the computations whose  *)
(* modules need the sizes and distances of a small instance, and the       *)
(* inputs to ask.                                                          *)
(***************************************************************************)
EXTENDS Integers, Sequences

CONSTANTS NULL, Text

VARIABLE question    \* NULL, [subject], or [subject, input]

Message == INSTANCE AcarsMessages
Gate    == INSTANCE Access
Config  == INSTANCE Configuration
Service == INSTANCE Upstream

About(subject) == question # NULL /\ "input" \in DOMAIN question /\ question.subject = subject

in == question.input

\* What a message says is so: figures add up, a clearance fits with its squawk
\* and its level whole, and a position reads true (src/acars.ts).
MessagesAgree ==
  /\ About("loadsheet") => Message!LoadsheetAddsUp(in)
  /\ About("clearance") => Message!ClearanceFits(in.dep, in.dst, in.tokens, in.level)
  /\ About("squawk") => Message!SquawksTellLegsApart(in[1], in[2])
  /\ About("position") => Message!PositionReadsTrue(in)
  /\ About("number") => Message!NumbersReadTrue(in)
  /\ About("dispatch") => Message!DispatchIsReadAsFiled(in.plan, in.alternates, in.damaged, in.lost, in.version)
  /\ About("issue") => Message!ClearanceIsReadAsIssued(in.plan, in.leg, in.damaged)
  /\ About("report") => Message!ReportsSpeakOfOneMoment(in[1], in[2])
  /\ About("station") => Message!WeatherIsOfTheStation(in.raw, in.metar, in.taf)
=============================================================================
