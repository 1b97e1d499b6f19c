----------------------------- MODULE CallPromise -----------------------------
(***************************************************************************)
(* What monitoring promises the person in front of the intercom and the one *)
(* at home, without sessions, tasks or SIP messages: there is one call at a *)
(* time; it begins unwatched and muted; a picture is received only in the   *)
(* call it belongs to; one is heard only during a call, and the panel shows *)
(* it for as long as one is; and letting a call go leaves neither picture   *)
(* nor microphone behind.                                                   *)
(***************************************************************************)
EXTENDS Naturals

CONSTANT Calls    \* the calls that may be placed, numbers from 1

VARIABLES
  call,    \* the call in progress, 0 for none
  media,   \* the call whose picture is being received, 0 for none
  hot,     \* the microphone is transmitting
  shown    \* the panel says that the microphone is on

promiseVars == <<call, media, hot, shown>>

PromiseInit == call = 0 /\ media = 0 /\ ~hot /\ ~shown

Answer(n) ==
  /\ call = 0 /\ media = 0 /\ ~hot
  /\ call' = n
  /\ UNCHANGED <<media, hot, shown>>

Watch ==
  /\ call # 0 /\ media = 0
  /\ media' = call
  /\ UNCHANGED <<call, hot, shown>>

SpeakOn ==
  /\ call # 0
  /\ hot' /\ shown'
  /\ UNCHANGED <<call, media>>

\* mute, or lose the picture, or both; the panel may lag behind a mute
Quieten ==
  /\ hot' => hot
  /\ shown' => shown
  /\ hot' => shown'
  /\ media' \in {media, 0}
  /\ UNCHANGED call

Release ==
  /\ call # 0
  /\ call' = 0 /\ media' = 0 /\ ~hot' /\ ~shown'

PromiseNext ==
  (\E n \in Calls : Answer(n)) \/ Watch \/ SpeakOn \/ Quieten \/ Release

PromiseSpec == PromiseInit /\ [][PromiseNext]_promiseVars

=============================================================================
