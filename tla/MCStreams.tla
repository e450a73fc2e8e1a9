----------------------------- MODULE MCStreams ------------------------------
(* The parts a stream of audio goes through, for TLC: the jitter buffer,   *)
(* the pacer of the web stream, the playback and the recorder.  They share *)
(* no state, so one of them runs in a behaviour, which one being chosen at *)
(* the start, and the others stay as they are initialized.                 *)
EXTENDS JitterBuffer, FifoPacer, Playback, Recorder

VARIABLE part   \* the part that runs

AnyJump == {-7, -2, 0, 3, 9}
ClockSettings == {-3, 0, 4}
Good ==
  [opens |-> TRUE, header |-> TRUE, stamps |-> <<0, 1, 3>>, torn |-> FALSE]
Recordings ==
  {Good, [Good EXCEPT !.stamps = <<2, 5, 4>>, !.torn = TRUE],
   [Good EXCEPT !.stamps = <<>>], [Good EXCEPT !.header = FALSE],
   [Good EXCEPT !.opens = FALSE]}

StreamsInit ==
  /\ part \in {"ring", "pacer", "playback", "recorder"}
  /\ RingInit /\ PacerInit /\ PlayInit /\ Init
  /\ part # "ring" => buf = CHOOSE b \in [Slots -> Sample] : TRUE

StreamsNext ==
  /\ \/ part = "ring" /\ RingNext
     \/ part # "ring" /\ UNCHANGED ringVars
  /\ \/ part = "pacer" /\ PacerNext
     \/ part # "pacer" /\ UNCHANGED pacerVars
  /\ \/ part = "playback" /\ PlayNext
     \/ part # "playback" /\ UNCHANGED playVars
  /\ \/ part = "recorder" /\ Next
     \/ part # "recorder" /\ UNCHANGED vars
  /\ UNCHANGED part

(* The fairness of FairPlaySpec and of Recorder's FairSpec, for the part   *)
(* that runs                                                               *)
StreamsSpec ==
  /\ StreamsInit
  /\ [][StreamsNext]_<<ringVars, pacerVars, playVars, vars, part>>
  /\ WF_playVars(part = "playback" /\ PacketStep)
  /\ WF_playVars(part = "playback" /\ (\E d \in Gaps : Pass(d, 0)) /\ age' # age)
  /\ WF_vars(part = "recorder" /\ Worker /\ worker # "waiting")
  /\ \A t \in Thread : /\ WF_vars(part = "recorder" /\ TestWriting(t))
                       /\ WF_vars(part = "recorder" /\ Push(t))
  /\ WF_vars(part = "recorder" /\ StartWriting)
  /\ WF_vars(part = "recorder" /\ ResetCount)
  /\ WF_vars(part = "recorder" /\ ClearWriting)
  /\ WF_vars(part = "recorder" /\ Notify)
=============================================================================
