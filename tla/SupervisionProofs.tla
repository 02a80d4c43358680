-------------------------- MODULE SupervisionProofs --------------------------
(***************************************************************************)
(* The supervision of the runtime.  First the safety controller alone, for  *)
(* every health window, every clock and every sequence of calls: SafetyInv  *)
(* is inductive, and the action properties follow from it.  Then the master *)
(* controller for every set of jobs, of slow callbacks and of callback      *)
(* writes: MasterInv is inductive, and with it a missed deadline halts the  *)
(* runtime for good, no timed-out callback is run again and the instance    *)
(* lock outlives every callback.                                            *)
(***************************************************************************)
EXTENDS MasterController, SafetyController, TLAPS

-----------------------------------------------------------------------------
(* The safety controller                                                   *)

\* degrade() keeps the type of the safety, never leaves a window running
\* in a state it has just entered, and never makes the runtime NORMAL.
LEMMA DegradeEffect ==
    ASSUME NEW c \in Controllers,
           NEW target \in RuntimeSafetyStates \ {"NORMAL"}
    PROVE  LET d == degrade(c, target) IN
           /\ d \in Controllers
           /\ d.paused = c.paused
           /\ \/ d.state = target /\ d.healthySince = NoTime
              \/ d = c /\ c.state \in {"EXIT_ONLY", "HALTED"}
           /\ c.state = "HALTED" => d.state = "HALTED"
  <1>1. CASE rank(target) >= rank(c.state)
    <2>1. degrade(c, target) = [c EXCEPT !.state = target, !.healthySince = NoTime]
      BY <1>1 DEF degrade
    <2>2. c.state = "HALTED" => target = "HALTED"
      BY <1>1 DEF rank, RuntimeSafetyStates
    <2>. QED  BY <2>1, <2>2 DEF Controllers, NoTime
  <1>2. CASE ~(rank(target) >= rank(c.state))
    <2>1. degrade(c, target) = c
      BY <1>2 DEF degrade
    <2>2. c.state \in {"EXIT_ONLY", "HALTED"}
      BY <1>2 DEF rank, RuntimeSafetyStates, Controllers
    <2>. QED  BY <2>1, <2>2
  <1>. QED  BY <1>1, <1>2

\* What every method of SafetyController keeps of SafetyInv, for a call made at
\* clock reading now when the last setback happened at reading back.
SoundState(c, back) ==
    /\ c \in Controllers
    /\ c.paused => c.state # "NORMAL" /\ c.healthySince = NoTime
    /\ c.state \in {"HALTED", "EXIT_ONLY"} => c.healthySince = NoTime
    /\ c.healthySince # NoTime => back <= c.healthySince
    /\ c.state = "NORMAL" => c.healthySince # NoTime

\* SafetyInv is the soundness of the safety plus the type of the history.
LEMMA SafetyInvAsSound ==
    SafetyInv <=> /\ SoundState(safety, lastSetback)
                  /\ clock \in Nat
                  /\ lastSetback \in Nat
                  /\ lastSetback <= clock
  BY DEF SafetyInv, SoundState, SafetyType, PauseHolds, SevereStatesHaveNoWindow,
         WindowFollowsSetback, NormalHasWindow

\* After degrade() no window runs, so the safety is sound whatever the
\* setback's reading is.
LEMMA DegradeSound ==
    ASSUME NEW c, NEW back \in Nat, NEW later \in Nat, SoundState(c, back),
           NEW target \in RuntimeSafetyStates \ {"NORMAL"}
    PROVE  /\ SoundState(degrade(c, target), later)
           /\ degrade(c, target).state # "NORMAL"
           /\ degrade(c, target).healthySince = NoTime
           /\ degrade(c, target).paused = c.paused
           /\ c.state = "HALTED" => degrade(c, target).state = "HALTED"
  <1>1. c \in Controllers
    BY DEF SoundState
  <1>. DEFINE d == degrade(c, target)
  <1>2. /\ d \in Controllers
        /\ d.paused = c.paused
        /\ \/ d.state = target /\ d.healthySince = NoTime
           \/ d = c /\ c.state \in {"EXIT_ONLY", "HALTED"}
        /\ c.state = "HALTED" => d.state = "HALTED"
    BY <1>1, DegradeEffect
  <1>. HIDE DEF d
  <1>3. d.state # "NORMAL" /\ d.healthySince = NoTime
    BY <1>2 DEF SoundState
  <1>4. SoundState(d, later)
    BY <1>2, <1>3 DEF SoundState
  <1>. QED  BY <1>2, <1>3, <1>4 DEF d

\* emergency_stop() is sound from any sound safety.
LEMMA StopSound ==
    ASSUME NEW c, NEW back \in Nat, NEW later \in Nat, SoundState(c, back)
    PROVE  /\ SoundState(emergency_stop(c), later)
           /\ emergency_stop(c).state = "HALTED"
  <1>1. c \in Controllers
    BY DEF SoundState
  <1>. DEFINE d == emergency_stop(c)
  <1>2. /\ d \in Controllers
        /\ d.state = "HALTED" /\ d.healthySince = NoTime /\ d.paused = c.paused
    BY <1>1 DEF emergency_stop, Controllers, RuntimeSafetyStates, NoTime
  <1>. HIDE DEF d
  <1>3. SoundState(d, later)
    BY <1>2 DEF SoundState
  <1>. QED  BY <1>2, <1>3 DEF d

\* The health window: from a sound, unpaused safety it reaches NORMAL only
\* when a window that started no earlier than the last setback has elapsed, and
\* leaves HALTED only with manual clearance.
LEMMA AccumulateSound ==
    ASSUME NEW c, NEW back \in Nat, NEW now \in Nat, NEW manual \in BOOLEAN,
           SoundState(c, back), back <= now, ~c.paused
    PROVE  LET d == accumulate(c, now, manual) IN
           /\ SoundState(d, back)
           /\ c.state # "NORMAL" /\ d.state = "NORMAL" => now - back >= Window
           /\ c.state = "HALTED" /\ d.state # "HALTED" =>
                 manual /\ d.state = "ENTRY_DISABLED" /\ d.healthySince = now
  <1>1. c \in Controllers /\ c.healthySince \in Nat \union {NoTime}
    BY DEF SoundState, Controllers
  <1>. DEFINE d == accumulate(c, now, manual)
  <1>2. CASE c.state = "HALTED" /\ ~manual
    <2>1. d = c
      BY <1>2 DEF accumulate
    <2>. HIDE DEF d
    <2>. QED  BY <1>2, <2>1 DEF d
  <1>3. CASE ~(c.state = "HALTED" /\ ~manual) /\ c.healthySince = NoTime
    <2>1. d = [c EXCEPT !.healthySince = now, !.state = "ENTRY_DISABLED"]
      BY <1>3 DEF accumulate
    <2>. HIDE DEF d
    <2>2. /\ d \in Controllers
          /\ d.state = "ENTRY_DISABLED" /\ d.healthySince = now
          /\ d.paused = c.paused
      BY <1>1, <2>1 DEF Controllers, RuntimeSafetyStates
    <2>3. SoundState(d, back)
      BY <2>2 DEF SoundState
    <2>. QED  BY <1>3, <2>2, <2>3 DEF d
  <1>4. CASE /\ ~(c.state = "HALTED" /\ ~manual) /\ c.healthySince # NoTime
             /\ now < c.healthySince
    <2>1. d = degrade(c, "ENTRY_DISABLED")
      BY <1>4 DEF accumulate
    <2>2. c.state # "HALTED"
      BY <1>4 DEF SoundState
    <2>3. SoundState(d, back) /\ d.state # "NORMAL"
      BY <2>1, DegradeSound DEF RuntimeSafetyStates
    <2>. HIDE DEF d
    <2>. QED  BY <2>2, <2>3 DEF d
  <1>5. CASE /\ ~(c.state = "HALTED" /\ ~manual) /\ c.healthySince # NoTime
             /\ ~(now < c.healthySince)
    <2>1. /\ c.state # "HALTED" /\ c.state # "EXIT_ONLY"
          /\ c.healthySince \in Nat /\ back <= c.healthySince
      BY <1>1, <1>5 DEF SoundState
    <2>2. CASE now - c.healthySince >= Window
      <3>1. d = [c EXCEPT !.state = "NORMAL"]
        BY <1>5, <2>2 DEF accumulate
      <3>. HIDE DEF d
      <3>2. /\ d \in Controllers
            /\ d.state = "NORMAL" /\ d.healthySince = c.healthySince
            /\ d.paused = c.paused
        BY <1>1, <3>1 DEF Controllers, RuntimeSafetyStates
      <3>3. SoundState(d, back)
        BY <1>5, <2>1, <3>2 DEF SoundState
      <3>4. now - back >= Window
        BY <2>1, <2>2, WindowAssumption
      <3>. QED  BY <2>1, <3>3, <3>4 DEF d
    <2>3. CASE ~(now - c.healthySince >= Window)
      <3>1. d = c
        BY <1>5, <2>3 DEF accumulate
      <3>. HIDE DEF d
      <3>. QED  BY <2>1, <3>1 DEF d
    <2>. QED  BY <2>2, <2>3
  <1>. QED  BY <1>2, <1>3, <1>4, <1>5

\* One health evaluation of a sound safety.
LEMMA ObserveSound ==
    ASSUME NEW c, NEW back \in Nat, NEW now \in Nat, NEW manual \in BOOLEAN,
           NEW e \in Evidence, SoundState(c, back), back <= now
    PROVE  LET d == observe(c, e, now, manual) IN
           /\ SoundState(d, IF permits_normal(e) /\ ~c.paused THEN back ELSE now)
           /\ c.state # "NORMAL" /\ d.state = "NORMAL" => now - back >= Window
           /\ c.state = "HALTED" /\ d.state # "HALTED" =>
                 /\ permits_normal(e) /\ manual
                 /\ d.state = "ENTRY_DISABLED" /\ d.healthySince = now
  <1>. DEFINE d == observe(c, e, now, manual)
              history == IF permits_normal(e) /\ ~c.paused THEN back ELSE now
  <1>0. history \in Nat
    OBVIOUS
  <1>1. CASE must_halt(e)
    <2>1. d = emergency_stop(c)
      BY <1>1 DEF observe
    <2>2. SoundState(d, history) /\ d.state = "HALTED"
      BY <1>0, <2>1, StopSound
    <2>. HIDE DEF d, history
    <2>. QED  BY <2>2 DEF d, history
  <1>2. CASE ~must_halt(e) /\ (~permits_normal(e) \/ c.paused)
    <2>1. d = degrade(c, "ENTRY_DISABLED")
      BY <1>2 DEF observe
    <2>2. /\ SoundState(d, history) /\ d.state # "NORMAL"
          /\ c.state = "HALTED" => d.state = "HALTED"
      BY <1>0, <2>1, DegradeSound DEF RuntimeSafetyStates
    <2>. HIDE DEF d, history
    <2>. QED  BY <2>2 DEF d, history
  <1>3. CASE ~must_halt(e) /\ permits_normal(e) /\ ~c.paused
    <2>1. d = accumulate(c, now, manual) /\ history = back
      BY <1>3 DEF observe
    <2>2. /\ SoundState(d, back)
          /\ c.state # "NORMAL" /\ d.state = "NORMAL" => now - back >= Window
          /\ c.state = "HALTED" /\ d.state # "HALTED" =>
                manual /\ d.state = "ENTRY_DISABLED" /\ d.healthySince = now
      BY <1>3, <2>1, AccumulateSound
    <2>. HIDE DEF d, history
    <2>. QED  BY <1>3, <2>1, <2>2 DEF d, history
  <1>. QED  BY <1>1, <1>2, <1>3

\* Clearing the pause latch of a sound safety leaves it sound.
LEMMA UnpauseSound ==
    ASSUME NEW c, NEW back \in Nat, SoundState(c, back)
    PROVE  LET d == [c EXCEPT !.paused = FALSE] IN
           SoundState(d, back) /\ d.state = c.state /\ ~d.paused
  <1>1. c \in Controllers
    BY DEF SoundState
  <1>. DEFINE d == [c EXCEPT !.paused = FALSE]
  <1>2. /\ d \in Controllers /\ d.state = c.state
        /\ d.healthySince = c.healthySince /\ d.paused = FALSE
    BY <1>1 DEF Controllers
  <1>. HIDE DEF d
  <1>3. SoundState(d, back)
    BY <1>2 DEF SoundState
  <1>. QED  BY <1>2, <1>3 DEF d

\* Setting it is a setback: a sound safety is degraded out of NORMAL.
LEMMA PauseSound ==
    ASSUME NEW c, NEW back \in Nat, NEW later \in Nat, SoundState(c, back)
    PROVE  /\ SoundState(pause_entries(c), later)
           /\ pause_entries(c).state # "NORMAL"
           /\ c.state = "HALTED" => pause_entries(c).state = "HALTED"
  <1>1. c \in Controllers
    BY DEF SoundState
  <1>. DEFINE p == [c EXCEPT !.paused = TRUE]
              d == degrade(p, "ENTRY_DISABLED")
  <1>2. /\ p \in Controllers /\ p.state = c.state
        /\ p.healthySince = c.healthySince /\ p.paused = TRUE
    BY <1>1 DEF Controllers
  <1>. HIDE DEF p
  <1>3. /\ d \in Controllers /\ d.paused = TRUE
        /\ \/ d.state = "ENTRY_DISABLED" /\ d.healthySince = NoTime
           \/ d = p /\ p.state \in {"EXIT_ONLY", "HALTED"}
        /\ p.state = "HALTED" => d.state = "HALTED"
    BY <1>2, DegradeEffect DEF RuntimeSafetyStates
  <1>. HIDE DEF d
  <1>4. d.state # "NORMAL" /\ d.healthySince = NoTime
    BY <1>2, <1>3 DEF SoundState
  <1>5. SoundState(d, later)
    BY <1>3, <1>4 DEF SoundState
  <1>6. pause_entries(c) = d
    BY DEF pause_entries, d, p
  <1>. QED  BY <1>2, <1>3, <1>4, <1>5, <1>6

\* What one step does: it keeps SafetyInv, it promotes only after a whole
\* window without a setback, and it leaves HALTED only on manual clearance.
\* One case per action of SafetyNext.
LEMMA StepSound ==
    ASSUME SafetyInv, [SafetyNext]_safetyVars
    PROVE  /\ SafetyInv'
           /\ safety.state # "NORMAL" /\ safety'.state = "NORMAL"
                => clock - lastSetback >= Window
           /\ safety.state = "HALTED" /\ safety'.state # "HALTED"
                => /\ \E e \in Evidence :
                         /\ permits_normal(e)
                         /\ Observe(e, TRUE) \/ ResumeEntries(e, TRUE)
                   /\ \A e \in Evidence : ~Observe(e, FALSE) /\ ~ResumeEntries(e, FALSE)
                   /\ safety'.state = "ENTRY_DISABLED"
                   /\ safety'.healthySince = clock
  <1>. DEFINE Earned == safety.state # "NORMAL" /\ safety'.state = "NORMAL"
                          => clock - lastSetback >= Window
              Left == safety.state = "HALTED" /\ safety'.state # "HALTED"
  <1>0. /\ SoundState(safety, lastSetback)
        /\ clock \in Nat /\ lastSetback \in Nat /\ lastSetback <= clock
    BY SafetyInvAsSound
  <1>1. ASSUME SoundState(safety', lastSetback'), clock' \in Nat,
               lastSetback' \in Nat, lastSetback' <= clock'
        PROVE  SafetyInv'
    BY <1>1 DEF SafetyInv, SoundState, SafetyType, PauseHolds, SevereStatesHaveNoWindow,
                WindowFollowsSetback, NormalHasWindow
  <1>2. ASSUME NEW target \in RuntimeSafetyStates \ {"NORMAL"}, Degrade(target)
        PROVE  SafetyInv' /\ Earned /\ ~Left
    BY <1>0, <1>1, <1>2, DegradeSound DEF Degrade
  <1>3. CASE EmergencyStop
    <2>. SafetyInv' /\ Earned /\ ~Left
      BY <1>0, <1>1, <1>3, StopSound DEF EmergencyStop
    <2>. QED  OBVIOUS
  <1>4. CASE PauseEntries
    <2>. SafetyInv' /\ Earned /\ ~Left
      BY <1>0, <1>1, <1>4, PauseSound DEF PauseEntries
    <2>. QED  OBVIOUS
  <1>5. ASSUME NEW e \in Evidence, NEW manual \in BOOLEAN, Observe(e, manual)
        PROVE  /\ SafetyInv' /\ Earned
               /\ Left => /\ permits_normal(e) /\ manual
                          /\ safety'.state = "ENTRY_DISABLED"
                          /\ safety'.healthySince = clock
    <2>1. /\ SoundState(safety', lastSetback')
          /\ Earned
          /\ Left => /\ permits_normal(e) /\ manual
                     /\ safety'.state = "ENTRY_DISABLED"
                     /\ safety'.healthySince = clock
      BY <1>0, <1>5, ObserveSound DEF Observe
    <2>2. clock' \in Nat /\ lastSetback' \in Nat /\ lastSetback' <= clock'
      BY <1>0, <1>5 DEF Observe
    <2>. QED  BY <1>1, <2>1, <2>2
  <1>6. ASSUME NEW e \in Evidence, NEW manual \in BOOLEAN, ResumeEntries(e, manual)
        PROVE  /\ SafetyInv' /\ Earned
               /\ Left => /\ permits_normal(e) /\ manual
                          /\ safety'.state = "ENTRY_DISABLED"
                          /\ safety'.healthySince = clock
    <2>. DEFINE d == [safety EXCEPT !.paused = FALSE]
    <2>1. SoundState(d, lastSetback) /\ d.state = safety.state /\ ~d.paused
      BY <1>0, UnpauseSound
    <2>2. /\ safety' = observe(d, e, clock, manual)
          /\ lastSetback' = IF permits_normal(e) THEN lastSetback ELSE clock
          /\ clock' = clock
      BY <1>6 DEF ResumeEntries, resume_entries
    <2>. HIDE DEF d
    <2>3. /\ SoundState(safety', IF permits_normal(e) /\ ~d.paused
                                THEN lastSetback ELSE clock)
          /\ d.state # "NORMAL" /\ safety'.state = "NORMAL"
                => clock - lastSetback >= Window
          /\ d.state = "HALTED" /\ safety'.state # "HALTED" =>
                /\ permits_normal(e) /\ manual
                /\ safety'.state = "ENTRY_DISABLED"
                /\ safety'.healthySince = clock
      BY <1>0, <2>1, <2>2, ObserveSound
    <2>. QED  BY <1>0, <1>1, <2>1, <2>2, <2>3
  <1>7. CASE Tick
    <2>. SafetyInv' /\ Earned /\ ~Left
      BY <1>0, <1>1, <1>7 DEF Tick
    <2>. QED  OBVIOUS
  <1>8. CASE ClockSetBack
    <2>1. safety' = safety /\ clock' \in Nat /\ lastSetback' \in Nat
          /\ lastSetback' <= clock' /\ lastSetback' <= lastSetback
      BY <1>0, <1>8 DEF ClockSetBack
    <2>2. SoundState(safety', lastSetback')
      BY <1>0, <2>1 DEF SoundState, Controllers, NoTime
    <2>3. SafetyInv' /\ Earned /\ ~Left
      BY <1>1, <2>1, <2>2
    <2>. QED  BY <2>3
  <1>9. CASE UNCHANGED safetyVars
    <2>. SafetyInv' /\ Earned /\ ~Left
      BY <1>0, <1>1, <1>9 DEF safetyVars
    <2>. QED  OBVIOUS
  <1>10. Left => \A e \in Evidence : ~Observe(e, FALSE) /\ ~ResumeEntries(e, FALSE)
    BY <1>5, <1>6
  <1>. QED
    BY <1>2, <1>3, <1>4, <1>5, <1>6, <1>7, <1>8, <1>9, <1>10 DEF SafetyNext

-----------------------------------------------------------------------------

\* The safety starts sound.
LEMMA InitSound == SafetyInit => SafetyInv
  BY DEF SafetyInit, Startup, SafetyInv, SafetyType, Controllers, RuntimeSafetyStates,
         PauseHolds, SevereStatesHaveNoWindow, WindowFollowsSetback,
         NormalHasWindow, NoTime

\* SafetyController keeps SafetyInv through every sequence of observe, degrade,
\* stop, pause and resume calls.
THEOREM SafetyInvHolds == SafetySpec => []SafetyInv
  <1>1. SafetyInv /\ [SafetyNext]_safetyVars => SafetyInv'
    BY StepSound
  <1>. QED  BY InitSound, <1>1, PTL DEF SafetySpec

\* A pause requested by the operator holds until resume_entries is called.
THEOREM PauseLatchHolds == SafetySpec => []PauseHolds
  <1>1. SafetyInv => PauseHolds
    BY DEF SafetyInv
  <1>. QED  BY SafetyInvHolds, <1>1, PTL

\* Entries are enabled only after a whole health window without a setback.
THEOREM PromotionEarned == SafetySpec => PromotionIsEarned
  <1>1. SafetyInv /\ [SafetyNext]_safetyVars =>
          [safety.state # "NORMAL" /\ safety'.state = "NORMAL"
             => clock - lastSetback >= Window]_safetyVars
    BY StepSound
  <1>. QED  BY SafetyInvHolds, <1>1, PTL DEF SafetySpec, PromotionIsEarned

\* A halt ends only with complete evidence and explicit manual clearance.
THEOREM HaltClearance == SafetySpec => HaltNeedsManualClearance
  <1>1. SafetyInv /\ [SafetyNext]_safetyVars =>
          [safety.state = "HALTED" /\ safety'.state # "HALTED"
             => /\ \E e \in Evidence :
                      /\ permits_normal(e)
                      /\ Observe(e, TRUE) \/ ResumeEntries(e, TRUE)
                /\ \A e \in Evidence : ~Observe(e, FALSE) /\ ~ResumeEntries(e, FALSE)
                /\ safety'.state = "ENTRY_DISABLED"
                /\ safety'.healthySince = clock]_safetyVars
    BY StepSound
  <1>. QED  BY SafetyInvHolds, <1>1, PTL DEF SafetySpec, HaltNeedsManualClearance

-----------------------------------------------------------------------------
(* The master controller                                                   *)

-----------------------------------------------------------------------------
(* The methods of SafetyController                                         *)

\* degrade never leads to NORMAL and never ends a halt.
LEMMA DegradeFacts ==
    ASSUME NEW c \in Controllers
    PROVE  LET d == degrade(c, "ENTRY_DISABLED") IN
           /\ d \in Controllers
           /\ d.state # "NORMAL"
           /\ c.state = "HALTED" => d.state = "HALTED"
  <1>1. CASE rank("ENTRY_DISABLED") >= rank(c.state)
    <2>1. degrade(c, "ENTRY_DISABLED")
             = [c EXCEPT !.state = "ENTRY_DISABLED", !.healthySince = NoTime]
      BY <1>1 DEF degrade
    <2>2. c.state # "HALTED"
      BY <1>1 DEF rank
    <2>3. [c EXCEPT !.state = "ENTRY_DISABLED", !.healthySince = NoTime] \in Controllers
      BY DEF Controllers, RuntimeSafetyStates, NoTime
    <2>. QED  BY <2>1, <2>2, <2>3 DEF Controllers
  <1>2. CASE ~(rank("ENTRY_DISABLED") >= rank(c.state))
    <2>1. degrade(c, "ENTRY_DISABLED") = c
      BY <1>2 DEF degrade
    <2>2. c.state # "NORMAL"
      BY <1>2 DEF rank
    <2>. QED  BY <2>1, <2>2
  <1>. QED  BY <1>1, <1>2

\* emergency_stop halts.
LEMMA StopFacts ==
    ASSUME NEW c \in Controllers
    PROVE  emergency_stop(c) \in Controllers /\ emergency_stop(c).state = "HALTED"
  BY DEF emergency_stop, Controllers, RuntimeSafetyStates, NoTime

\* pause_entries never leads to NORMAL and never ends a halt.
LEMMA PauseFacts ==
    ASSUME NEW c \in Controllers
    PROVE  /\ pause_entries(c) \in Controllers
           /\ pause_entries(c).state # "NORMAL"
           /\ c.state = "HALTED" => pause_entries(c).state = "HALTED"
  <1>. DEFINE p == [c EXCEPT !.paused = TRUE]
  <1>1. p \in Controllers /\ p.state = c.state
    BY DEF Controllers
  <1>. HIDE DEF p
  <1>2. pause_entries(c) = degrade(p, "ENTRY_DISABLED")
    BY DEF pause_entries, p
  <1>. QED  BY <1>1, <1>2, DegradeFacts

\* The health window with no manual clearance.
LEMMA AccumulateFacts ==
    ASSUME NEW c \in Controllers
    PROVE  /\ accumulate(c, 0, FALSE) \in Controllers
           /\ c.state = "HALTED" => accumulate(c, 0, FALSE).state = "HALTED"
  <1>1. c.state \in RuntimeSafetyStates /\ c.healthySince \in Nat \union {NoTime}
    BY DEF Controllers
  <1>2. CASE c.state = "HALTED"
    BY <1>2 DEF accumulate
  <1>3. CASE c.state # "HALTED"
    <2>1. degrade(c, "ENTRY_DISABLED") \in Controllers
      BY DegradeFacts
    <2>2. [c EXCEPT !.healthySince = 0, !.state = "ENTRY_DISABLED"] \in Controllers
      BY DEF Controllers, RuntimeSafetyStates
    <2>3. [c EXCEPT !.state = "NORMAL"] \in Controllers
      BY DEF Controllers, RuntimeSafetyStates
    <2>. QED  BY <1>3, <2>1, <2>2, <2>3 DEF accumulate
  <1>. QED  BY <1>2, <1>3

\* observe without manual clearance never ends a halt, and leaves NORMAL in
\* place only on complete evidence.
LEMMA ObserveFacts ==
    ASSUME NEW c \in Controllers, NEW e
    PROVE  LET d == observe(c, e, 0, FALSE) IN
           /\ d \in Controllers
           /\ d.state = "NORMAL" => permits_normal(e)
           /\ c.state = "HALTED" => d.state = "HALTED"
  BY StopFacts, DegradeFacts, AccumulateFacts DEF observe

\* Nor does resume_entries.
LEMMA ResumeFacts ==
    ASSUME NEW c \in Controllers, NEW e
    PROVE  LET d == resume_entries(c, e, 0, FALSE) IN
           /\ d \in Controllers
           /\ d.state = "NORMAL" => permits_normal(e)
           /\ c.state = "HALTED" => d.state = "HALTED"
  <1>. DEFINE p == [c EXCEPT !.paused = FALSE]
  <1>1. p \in Controllers /\ p.state = c.state
    BY DEF Controllers
  <1>. HIDE DEF p
  <1>2. resume_entries(c, e, 0, FALSE) = observe(p, e, 0, FALSE)
    BY DEF resume_entries, p
  <1>. QED  BY <1>1, <1>2, ObserveFacts

-----------------------------------------------------------------------------
(* The timeout latch                                                       *)

\* What every handler makes of the view and of the safety state before the
\* latch is enforced.
Sound(v, c) ==
    /\ v \in Views
    /\ c \in Controllers
    /\ controller.state = "HALTED" => c.state = "HALTED"
    /\ c.state = "NORMAL" => \E e \in v.evidence : permits_normal(e)

\* The evidence of a typed view is typed.
LEMMA EvidenceFacts ==
    ASSUME NEW v \in Views, NEW db \in BOOLEAN, NEW br \in BOOLEAN,
           NEW ex \in BOOLEAN, killClear \in BOOLEAN
    PROVE  safety_evidence(v, db, br, ex) \in Evidence
  BY DEF safety_evidence, Evidence, Views

\* enforced_view withdraws reconciliation and execution evidence.
LEMMA EnforcedViewFacts ==
    ASSUME NEW v \in Views, NEW late, late # {}, killClear \in BOOLEAN
    PROVE  LET w == enforced_view(v, late) IN
           w \in Views /\ ~w.reconciled /\ ~w.exec
  <1>. DEFINE db == v.db /\ "database" \notin late
              br == v.broker /\ "broker" \notin late
              w == [v EXCEPT !.reconciled = FALSE, !.exec = FALSE, !.db = db, !.broker = br]
              e == safety_evidence(w, w.db, w.broker, FALSE)
  <1>1. /\ w \in Views /\ w.reconciled = FALSE /\ w.exec = FALSE
        /\ w.db \in BOOLEAN /\ w.broker \in BOOLEAN
    BY DEF Views
  <1>2. enforced_view(v, late) = [w EXCEPT !.evidence = {e}]
    BY DEF enforced_view
  <1>. HIDE DEF w
  <1>3. e \in Evidence
    BY <1>1, EvidenceFacts
  <1>. HIDE DEF e
  <1>. QED  BY <1>1, <1>2, <1>3 DEF Views

\* Enforcing the latch after a sound handler is sound, and halts when it is set.
LEMMA EnforceFacts ==
    ASSUME NEW v, NEW c, NEW late, Sound(v, c), killClear \in BOOLEAN,
           EnforceLatch(v, c, late)
    PROVE  /\ Sound(view', controller')
           /\ late # {} => /\ controller'.state = "HALTED"
                           /\ ~view'.reconciled /\ ~view'.exec
  <1>1. CASE late = {}
    BY <1>1 DEF EnforceLatch, enforced_view, enforced_safety
  <1>2. CASE late # {}
    <2>1. view' \in Views /\ ~view'.reconciled /\ ~view'.exec
      BY <1>2, EnforcedViewFacts DEF EnforceLatch, Sound
    <2>2. controller' = emergency_stop(c)
      BY <1>2 DEF EnforceLatch, enforced_safety
    <2>3. controller' \in Controllers /\ controller'.state = "HALTED"
      BY <2>2, StopFacts DEF Sound
    <2>. QED  BY <2>1, <2>3 DEF Sound
  <1>. QED  BY <1>1, <1>2

\* A state that satisfies the invariant is sound, and stays so under a change of
\* one flag of the view.
LEMMA SoundNow ==
    ASSUME MasterInv
    PROVE  /\ Sound(view, controller)
           /\ Sound(view, degrade(controller, "ENTRY_DISABLED"))
           /\ Sound(view, emergency_stop(controller))
           /\ Sound(view, pause_entries(controller))
           /\ killClear \in BOOLEAN
  <1>1. view \in Views /\ controller \in Controllers /\ killClear \in BOOLEAN
    BY DEF MasterInv, TypeOK
  <1>2. controller.state = "NORMAL" => \E e \in view.evidence : permits_normal(e)
    BY DEF MasterInv, NormalRestsOnEvidence
  <1>3. Sound(view, degrade(controller, "ENTRY_DISABLED"))
    BY <1>1, DegradeFacts DEF Sound
  <1>4. Sound(view, emergency_stop(controller))
    BY <1>1, StopFacts DEF Sound
  <1>5. Sound(view, pause_entries(controller))
    BY <1>1, PauseFacts DEF Sound
  <1>. QED  BY <1>1, <1>2, <1>3, <1>4, <1>5 DEF Sound

LEMMA SoundFlag ==
    ASSUME NEW v, NEW c, Sound(v, c), NEW b \in BOOLEAN
    PROVE  /\ Sound([v EXCEPT !.reconciled = b], c)
           /\ Sound([v EXCEPT !.exec = b], c)
           /\ Sound([v EXCEPT !.fresh = b], c)
           /\ Sound([v EXCEPT !.unresolved = b], c)
  BY DEF Sound, Views

\* HealthFinish stores the evidence that it observes.
LEMMA HealthFinishSound ==
    ASSUME MasterInv, HealthFinish
    PROVE  \E w, c : Sound(w, c) /\ EnforceLatch(w, c, timedOut)
  <1>0. Sound(view, controller) /\ killClear \in BOOLEAN
    BY SoundNow
  <1>. DEFINE Good(k) == health.got[k] = "ok"
              ex == Good("execution") /\ timedOut = {}
              u == enforced_view(view, timedOut)
              v == [u EXCEPT !.exec = ex]
              e == safety_evidence(v, Good("database"), Good("broker"), ex)
              w == [v EXCEPT !.db = Good("database"), !.broker = Good("broker"),
                             !.evidence = {e}]
              c == enforced_safety(controller, timedOut)
  <1>1. u \in Views
    BY <1>0, EnforcedViewFacts DEF enforced_view, Sound
  <1>2. c \in Controllers /\ (controller.state = "HALTED" => c.state = "HALTED")
    BY <1>0, StopFacts DEF enforced_safety, Sound
  <1>3. EnforceLatch(w, observe(c, e, 0, FALSE), timedOut)
    BY DEF HealthFinish
  <1>. HIDE DEF u, c
  <1>4. v \in Views
    BY <1>1 DEF Views
  <1>. HIDE DEF v
  <1>5. e \in Evidence
    BY <1>0, <1>4, EvidenceFacts
  <1>. HIDE DEF e
  <1>6. w \in Views /\ w.evidence = {e}
    BY <1>4, <1>5 DEF Views
  <1>. HIDE DEF w
  <1>7. Sound(w, observe(c, e, 0, FALSE))
    BY <1>2, <1>6, ObserveFacts DEF Sound
  <1>. QED  BY <1>3, <1>7

\* One step: whatever happens the safety state stays sound, and a missed
\* deadline leaves the runtime halted.
LEMMA SafetyStep ==
    ASSUME MasterInv, [Next]_vars
    PROVE  Sound(view', controller') /\ (timedOut' # {} => controller'.state = "HALTED")
  <1>0. /\ Sound(view, controller)
        /\ Sound(view, degrade(controller, "ENTRY_DISABLED"))
        /\ Sound(view, emergency_stop(controller))
        /\ Sound(view, pause_entries(controller))
        /\ killClear \in BOOLEAN
        /\ timedOut # {} => controller.state = "HALTED"
    BY SoundNow DEF MasterInv, LatchHalts
  <1>1. ASSUME Sound(view', controller'), timedOut' = timedOut
        PROVE  timedOut' # {} => controller'.state = "HALTED"
    BY <1>0, <1>1 DEF Sound
  <1>2. CASE Callback
    <2>1. ASSUME NEW k \in Keys, NEW r \in Results, CallbackEnds(k, r)
          PROVE  Sound(view', controller') /\ timedOut' = timedOut
      BY <1>0, <2>1, EnforceFacts DEF CallbackEnds
    <2>2. ASSUME NEW k \in Keys, NEW w \in Writes, NEW b \in BOOLEAN,
                 CallbackWrites(k, w[2], b)
          PROVE  Sound(view', controller') /\ timedOut' = timedOut
      <3>1. w[2] \in {"reconciled", "exec", "fresh", "unresolved"}
        BY WritesAssumption
      <3>2. view' \in {[view EXCEPT !.reconciled = b], [view EXCEPT !.exec = b],
                       [view EXCEPT !.fresh = b], [view EXCEPT !.unresolved = b]}
        BY <2>2, <3>1 DEF CallbackWrites
      <3>3. controller' = controller /\ timedOut' = timedOut
        BY <2>2 DEF CallbackWrites
      <3>4. /\ Sound([view EXCEPT !.reconciled = b], controller)
            /\ Sound([view EXCEPT !.exec = b], controller)
            /\ Sound([view EXCEPT !.fresh = b], controller)
            /\ Sound([view EXCEPT !.unresolved = b], controller)
        BY <1>0, SoundFlag
      <3>5. Sound(view', controller)
        BY <3>2, <3>4
      <3>. QED  BY <3>3, <3>5
    <2>. QED  BY <1>1, <1>2, <2>1, <2>2 DEF Callback
  <1>3. CASE Reconcile
    <2>1. CASE ReconcileReturns
      <3>. DEFINE ok == cb["reconciliation"] = "true" /\ timedOut = {}
                  c == IF ok THEN controller ELSE Disabled(controller)
      <3>1. Sound([view EXCEPT !.reconciled = ok], c)
        BY <1>0, SoundFlag DEF Disabled
      <3>2. EnforceLatch([view EXCEPT !.reconciled = ok], c, timedOut) /\ timedOut' = timedOut
        BY <2>1 DEF ReconcileReturns
      <3>. HIDE DEF ok, c
      <3>. QED  BY <1>0, <1>1, <3>1, <3>2, EnforceFacts
    <2>2. CASE ReconcileDeadline
      <3>1. EnforceLatch(view, degrade(controller, "ENTRY_DISABLED"), timedOut')
        BY <2>2 DEF ReconcileDeadline, Disabled
      <3>. QED  BY <1>0, <3>1, EnforceFacts
    <2>3. CASE ForceReconcile
      BY <1>0, <1>1, <2>3, SoundFlag DEF ForceReconcile, Sound
    <2>4. CASE ForceReconcileRefused
      <3>. DEFINE v == [view EXCEPT !.reconciled = FALSE]
                  c == IF timedOut = {} /\ stop THEN controller ELSE Disabled(controller)
      <3>1. Sound(v, c)
        BY <1>0, SoundFlag DEF Disabled
      <3>2. EnforceLatch(v, c, timedOut) /\ timedOut' = timedOut
        BY <2>4 DEF ForceReconcileRefused
      <3>. HIDE DEF v, c
      <3>. QED  BY <1>0, <1>1, <3>1, <3>2, EnforceFacts
    <2>5. CASE ReconcileCancelled \/ RequestCancelled
      BY <1>0, <1>1, <2>5 DEF ReconcileCancelled, RequestCancelled, Sound
    <2>. QED  BY <1>3, <2>1, <2>2, <2>3, <2>4, <2>5 DEF Reconcile
  <1>4. CASE Health
    <2>1. ASSUME NEW keys, NEW c, StartProbes(keys, c), Sound(view, c),
                 Sound(view, Disabled(c))
          PROVE  Sound(view', controller') /\ timedOut' = timedOut
      BY <1>0, <2>1, EnforceFacts DEF StartProbes
    <2>2. CASE HealthBegin
      <3>1. Sound(view, Disabled(emergency_stop(controller)))
        BY <1>0, DegradeFacts, StopFacts DEF Sound, Disabled
      <3>2. Sound(view, Disabled(controller))
        BY <1>0 DEF Disabled
      <3>. QED  BY <1>0, <1>1, <2>1, <2>2, <3>1, <3>2 DEF HealthBegin
    <2>3. CASE HealthExecution
      BY <1>0, <1>1, <2>1, <2>3 DEF HealthExecution, Disabled
    <2>4. ASSUME NEW k \in Probes, ProbeReturns(k)
          PROVE  Sound(view', controller') /\ timedOut' = timedOut
      BY <1>0, <2>4 DEF ProbeReturns, Disabled, Sound
    <2>5. ASSUME NEW k \in Probes, ProbeDeadline(k)
          PROVE  Sound(view', controller') /\ controller'.state = "HALTED"
      <3>1. EnforceLatch(view, degrade(controller, "ENTRY_DISABLED"), timedOut')
            /\ timedOut' # {}
        BY <2>5 DEF ProbeDeadline, Disabled
      <3>. QED  BY <1>0, <3>1, EnforceFacts
    <2>6. CASE HealthFinish
      <3>1. PICK w, c : Sound(w, c) /\ EnforceLatch(w, c, timedOut)
        BY <2>6, HealthFinishSound
      <3>2. timedOut' = timedOut
        BY <2>6 DEF HealthFinish
      <3>. QED  BY <1>0, <1>1, <3>1, <3>2, EnforceFacts
    <2>7. CASE HealthAborted
      BY <1>0, <1>1, <2>7, EnforceFacts DEF HealthAborted
    <2>. QED  BY <1>1, <1>4, <2>2, <2>3, <2>4, <2>5, <2>6, <2>7 DEF Health
  <1>5. CASE JobLoops
    <2>1. ASSUME NEW j \in Loops, JobStarts(j) \/ JobReturns(j)
          PROVE  Sound(view', controller') /\ timedOut' = timedOut
      BY <1>0, <2>1 DEF JobStarts, JobReturns, Disabled, Sound
    <2>2. ASSUME NEW j \in Loops, JobDeadline(j)
          PROVE  Sound(view', controller') /\ controller'.state = "HALTED"
      <3>1. EnforceLatch(view, degrade(controller, "ENTRY_DISABLED"), timedOut')
            /\ timedOut' # {}
        BY <2>2 DEF JobDeadline, Disabled
      <3>. QED  BY <1>0, <3>1, EnforceFacts
    <2>. QED  BY <1>1, <1>5, <2>1, <2>2 DEF JobLoops
  <1>6. CASE Lifespan
    <2>1. CASE Start
      BY <1>0, <1>1, <2>1, SoundFlag DEF Start, Sound
    <2>2. CASE StartRefused \/ StartCancelled \/ StartAborts
      BY <1>0, <1>1, <2>2 DEF StartRefused, StartCancelled, StartAborts, Sound
    <2>3. CASE Stop \/ StopEnds
      BY <1>0, <1>1, <2>3 DEF Stop, StopEnds, Sound
    <2>. QED  BY <1>6, <2>1, <2>2, <2>3 DEF Lifespan
  <1>7. CASE Operator
    <2>1. CASE DashboardResume
      <3>1. PICK e \in view.evidence :
               controller' = resume_entries(controller, e, 0, FALSE)
        BY <2>1 DEF DashboardResume
      <3>2. view' = view /\ timedOut' = timedOut
        BY <2>1 DEF DashboardResume, Controlled
      <3>. QED  BY <1>0, <1>1, <3>1, <3>2, ResumeFacts DEF Sound
    <2>2. CASE DashboardStop \/ DashboardPause
      BY <1>0, <1>1, <2>2 DEF DashboardStop, DashboardPause, Controlled, Sound
    <2>3. ASSUME NEW b \in BOOLEAN, SetKillFile(b)
          PROVE  Sound(view', controller') /\ timedOut' = timedOut
      BY <1>0, <2>3 DEF SetKillFile, Controlled, Sound
    <2>. QED  BY <1>1, <1>7, <2>1, <2>2, <2>3 DEF Operator
  <1>8. CASE UNCHANGED vars
    BY <1>0, <1>1, <1>8 DEF vars, Sound
  <1>. QED  BY <1>2, <1>3, <1>4, <1>5, <1>6, <1>7, <1>8 DEF Next

-----------------------------------------------------------------------------
(* Callbacks, phases and the lock                                          *)

Evaluations == [pc : {"idle", "begin", "probe", "execution"}, owner : {"start", "loop"},
                got : [Probes -> {"wait", "ok", "bad"}]]

\* Types of everything but the view and the safety state.
ControlOK ==
    /\ phase \in {"new", "starting", "aborting", "failed", "running", "stopping",
                  "stopped", "incomplete"}
    /\ stop \in BOOLEAN /\ owned \in BOOLEAN /\ killClear \in BOOLEAN
    /\ cb \in [Keys -> Tasks]
    /\ timedOut \subseteq Keys
    /\ recon \in {"idle", "start", "dashboard"}
    /\ health \in Evaluations
    /\ loop \in [Loops -> {"none", "sleep", "await", "ended"}]

\* The records of an evaluation that starts.
LEMMA HealthFacts ==
    LET h == [IdleHealth EXCEPT !.pc = "begin", !.owner = "start"]
        g == [IdleHealth EXCEPT !.pc = "begin"] IN
    /\ IdleHealth \in Evaluations /\ IdleHealth.pc = "idle"
    /\ h \in Evaluations /\ h.pc = "begin" /\ h.owner = "start"
    /\ g \in Evaluations /\ g.pc = "begin" /\ g.owner = "loop"
  <1>1. IdleHealth \in Evaluations /\ IdleHealth.pc = "idle" /\ IdleHealth.owner = "loop"
    BY DEF IdleHealth, Evaluations
  <1>. QED  BY <1>1 DEF Evaluations

\* Cancelling tasks starts none and ends none.
LEMMA CancelFacts ==
    ASSUME ControlOK, NEW keys
    PROVE  /\ CancelTasks(keys) \in [Keys -> Tasks]
           /\ \A k \in Keys : Active(k) <=> CancelTasks(keys)[k] \in {"running", "cancelling"}
           /\ \A k \in Keys \ keys : CancelTasks(keys)[k] = cb[k]
  BY DEF ControlOK, CancelTasks, Active, Tasks

\* One step keeps the types.
LEMMA ControlStep ==
    ASSUME ControlOK, [Next]_vars
    PROVE  ControlOK'
  <1>0. {"reconciliation", "health"} \subseteq Keys /\ Probes \subseteq Keys
        /\ Loops \subseteq Keys /\ "health" \in Loops
        /\ {"database", "broker", "execution"} \subseteq Probes
    BY DEF Keys, Loops, Probes
  <1>1. {"none", "running", "cancelling"} \subseteq Tasks /\ Results \subseteq Tasks
        /\ {"true", "false", "error", "cancelled"} \subseteq Tasks
    BY DEF Tasks, Results
  <1>2. CASE Callback
    BY <1>0, <1>1, <1>2 DEF Callback, CallbackEnds, CallbackWrites, ControlOK
  <1>3. CASE Reconcile
    <2>1. CASE ReconcileReturns \/ ReconcileDeadline
      BY <1>0, <1>1, <2>1, HealthFacts
      DEF ReconcileReturns, ReconcileDeadline, ReconcileDone, ControlOK
    <2>2. CASE ForceReconcile \/ ForceReconcileRefused \/ ReconcileCancelled
      BY <1>0, <1>1, <2>2
      DEF ForceReconcile, ForceReconcileRefused, ReconcileCancelled, ControlOK
    <2>3. CASE RequestCancelled
      BY <2>3, CancelFacts DEF RequestCancelled, ControlOK
    <2>. QED  BY <1>3, <2>1, <2>2, <2>3 DEF Reconcile
  <1>4. CASE Health
    <2>1. ASSUME NEW keys, NEW c, StartProbes(keys, c)
          PROVE  ControlOK'
      <3>1. cb' \in [Keys -> Tasks]
        BY <1>0, <1>1, <2>1 DEF StartProbes, ControlOK
      <3>2. PICK bad : health' = [health EXCEPT
                          !.pc = IF "execution" \in keys THEN "execution" ELSE "probe",
                          !.got = [k \in Probes |-> IF k \in bad THEN "bad" ELSE @[k]]]
        BY <2>1 DEF StartProbes
      <3>3. health.got \in [Probes -> {"wait", "ok", "bad"}]
        BY DEF ControlOK, Evaluations
      <3>4. [k \in Probes |-> IF k \in bad THEN "bad" ELSE health.got[k]]
               \in [Probes -> {"wait", "ok", "bad"}]
        BY <3>3
      <3>5. health' \in Evaluations
        BY <3>2, <3>4 DEF ControlOK, Evaluations
      <3>. QED  BY <2>1, <3>1, <3>5 DEF StartProbes, ControlOK
    <2>2. CASE HealthBegin \/ HealthExecution
      BY <2>1, <2>2 DEF HealthBegin, HealthExecution
    <2>3. ASSUME NEW k \in Probes, ProbeReturns(k) \/ ProbeDeadline(k)
          PROVE  ControlOK'
      BY <1>0, <1>1, <2>3 DEF ProbeReturns, ProbeDeadline, ControlOK, Evaluations
    <2>4. CASE HealthFinish
      BY <1>0, <1>1, <2>4, HealthFacts DEF HealthFinish, ControlOK
    <2>5. CASE HealthAborted
      BY <1>0, <1>1, <2>5, CancelFacts, HealthFacts DEF HealthAborted, ControlOK
    <2>. QED  BY <1>4, <2>2, <2>3, <2>4, <2>5 DEF Health
  <1>5. CASE JobLoops
    <2>1. ASSUME NEW j \in Loops, JobStarts(j) \/ JobReturns(j) \/ JobDeadline(j)
          PROVE  ControlOK'
      BY <1>0, <1>1, <2>1, HealthFacts DEF JobStarts, JobReturns, JobDeadline, ControlOK
    <2>. QED  BY <1>5, <2>1 DEF JobLoops
  <1>6. CASE Lifespan
    <2>1. CASE Start
      <3>1. cb' \in [Keys -> Tasks]
        BY <1>0, <1>1, <2>1 DEF Start, ControlOK
      <3>. QED  BY <2>1, <3>1 DEF Start, ControlOK
    <2>0. CASE StartRefused
      BY <2>0 DEF StartRefused, ControlOK
    <2>2. CASE StartCancelled
      BY <2>2, CancelFacts, HealthFacts DEF StartCancelled, ControlOK
    <2>3. CASE Stop
      BY <1>0, <1>1, <2>3 DEF Stop, ControlOK
    <2>4. CASE StartAborts \/ StopEnds
      <3>1. AnyActive \in BOOLEAN
        BY DEF AnyActive
      <3>2. owned' \in BOOLEAN
        BY <2>4, <3>1 DEF StartAborts, StopEnds
      <3>. QED  BY <2>4, <3>2 DEF StartAborts, StopEnds, ControlOK
    <2>. QED  BY <1>6, <2>0, <2>1, <2>2, <2>3, <2>4 DEF Lifespan
  <1>7. CASE Operator
    BY <1>7 DEF Operator, SetKillFile, DashboardStop, DashboardPause, DashboardResume,
                Controlled, ControlOK
  <1>8. CASE UNCHANGED vars
    BY <1>8 DEF vars, ControlOK
  <1>. QED  BY <1>2, <1>3, <1>4, <1>5, <1>6, <1>7, <1>8 DEF Next

\* The invariant without its safety part.
ControlInv == ControlOK /\ PhaseInv /\ LockCoversCallbacks

\* A callback is started only under the lock and never after it timed out; the
\* lock is released only when nothing runs.
LEMMA ActivityStep ==
    ASSUME ControlInv, [Next]_vars
    PROVE  /\ \A k \in Keys : Active(k)' /\ ~Active(k) => owned' /\ k \notin timedOut
           /\ owned /\ AnyActive' => owned'
  <1>0. {"reconciliation", "health"} \subseteq Keys /\ Probes \subseteq Keys
        /\ Loops \subseteq Keys /\ "health" \in Loops /\ cb \in [Keys -> Tasks]
    BY DEF Keys, Loops, Probes, ControlInv, ControlOK
  <1>. DEFINE Goal == /\ \A k \in Keys : Active(k)' /\ ~Active(k) => owned' /\ k \notin timedOut
                      /\ owned /\ AnyActive' => owned'
  <1>1. ASSUME \A k \in Keys : Active(k)' => Active(k), owned' = owned
        PROVE  Goal
    BY <1>1
  <1>2. CASE Callback
    <2>1. ASSUME NEW k \in Keys, NEW r \in Results, CallbackEnds(k, r)
          PROVE  Goal
      <3>1. \A l \in Keys : Active(l)' => Active(l)
        BY <1>0, <2>1 DEF CallbackEnds, Active, Results
      <3>. QED  BY <1>1, <2>1, <3>1 DEF CallbackEnds
    <2>2. ASSUME NEW k, NEW field, NEW b, CallbackWrites(k, field, b)
          PROVE  Goal
      BY <1>1, <2>2 DEF CallbackWrites, Active
    <2>. QED  BY <1>2, <2>1, <2>2 DEF Callback
  <1>3. CASE Reconcile
    <2>1. CASE ReconcileReturns \/ ReconcileDeadline \/ ReconcileCancelled
      <3>1. \A l \in Keys : Active(l)' => Active(l)
        BY <1>0, <2>1 DEF ReconcileReturns, ReconcileDeadline, ReconcileCancelled, Active
      <3>. QED  BY <1>1, <2>1, <3>1 DEF ReconcileReturns, ReconcileDeadline, ReconcileCancelled
    <2>2. CASE ForceReconcile
      <3>1. owned /\ owned' = owned
        BY <2>2 DEF ForceReconcile, ControlInv, PhaseInv
      <3>. QED  BY <2>2, <3>1 DEF ForceReconcile
    <2>3. CASE ForceReconcileRefused
      BY <1>1, <2>3 DEF ForceReconcileRefused, Active
    <2>4. CASE RequestCancelled
      <3>1. \A l \in Keys : Active(l)' => Active(l)
        BY <2>4, CancelFacts DEF RequestCancelled, ControlInv, Active
      <3>. QED  BY <1>1, <2>4, <3>1 DEF RequestCancelled
    <2>. QED  BY <1>3, <2>1, <2>2, <2>3, <2>4 DEF Reconcile
  <1>4. CASE Health
    <2>1. ASSUME NEW keys, NEW c, StartProbes(keys, c), HealthAlive, health.pc # "idle"
          PROVE  Goal
      <3>1. owned
        <4>1. CASE health.owner = "start"
          BY <2>1, <4>1 DEF ControlInv, PhaseInv
        <4>2. CASE health.owner # "start"
          BY <1>0, <2>1, <4>2 DEF ControlInv, PhaseInv, LockCoversCallbacks, AnyActive
        <4>. QED  BY <4>1, <4>2
      <3>2. owned' = owned
        BY <2>1 DEF StartProbes
      <3>3. \A k \in Keys : Active(k)' /\ ~Active(k) => k \notin timedOut
        BY <2>1 DEF StartProbes, Active
      <3>. QED  BY <3>1, <3>2, <3>3
    <2>2. CASE HealthBegin \/ HealthExecution
      BY <2>1, <2>2 DEF HealthBegin, HealthExecution
    <2>3. ASSUME NEW k \in Probes, ProbeReturns(k) \/ ProbeDeadline(k)
          PROVE  Goal
      <3>1. \A l \in Keys : Active(l)' => Active(l)
        BY <1>0, <2>3 DEF ProbeReturns, ProbeDeadline, Active
      <3>. QED  BY <1>1, <2>3, <3>1 DEF ProbeReturns, ProbeDeadline
    <2>4. CASE HealthFinish
      <3>1. \A l \in Keys : Active(l)' => Active(l)
        BY <1>0, <2>4 DEF HealthFinish, Active
      <3>. QED  BY <1>1, <2>4, <3>1 DEF HealthFinish
    <2>5. CASE HealthAborted
      <3>1. \A l \in Keys : Active(l)' => Active(l)
        BY <1>0, <2>5, CancelFacts DEF HealthAborted, ControlInv, Active
      <3>. QED  BY <1>1, <2>5, <3>1 DEF HealthAborted
    <2>. QED  BY <1>4, <2>2, <2>3, <2>4, <2>5 DEF Health
  <1>5. CASE JobLoops
    <2>1. ASSUME NEW j \in Loops, JobStarts(j)
          PROVE  Goal
      <3>1. owned /\ owned' = owned /\ j \notin timedOut
        BY <2>1 DEF JobStarts, ControlInv, PhaseInv
      <3>2. \A l \in Keys : Active(l)' /\ ~Active(l) => l = j
        BY <1>0, <2>1 DEF JobStarts, Active
      <3>. QED  BY <3>1, <3>2
    <2>2. ASSUME NEW j \in Loops, JobReturns(j) \/ JobDeadline(j)
          PROVE  Goal
      <3>1. \A l \in Keys : Active(l)' => Active(l)
        BY <1>0, <2>2 DEF JobReturns, JobDeadline, Active
      <3>. QED  BY <1>1, <2>2, <3>1 DEF JobReturns, JobDeadline
    <2>. QED  BY <1>5, <2>1, <2>2 DEF JobLoops
  <1>6. CASE Lifespan
    <2>1. CASE Start
      BY <2>1 DEF Start, ControlInv, PhaseInv
    <2>2. CASE StartRefused
      BY <1>1, <2>2 DEF StartRefused, Active
    <2>3. CASE StartCancelled
      <3>1. \A l \in Keys : Active(l)' => Active(l)
        BY <2>3, CancelFacts DEF StartCancelled, ControlInv, Active
      <3>. QED  BY <1>1, <2>3, <3>1 DEF StartCancelled
    <2>4. CASE Stop
      <3>1. \A l \in Keys : Active(l)' => Active(l)
        BY <1>0, <2>4 DEF Stop, Active
      <3>. QED  BY <1>1, <2>4, <3>1 DEF Stop
    <2>5. CASE StartAborts \/ StopEnds
      <3>1. cb' = cb
        BY <2>5 DEF StartAborts, StopEnds
      <3>2. owned' = AnyActive \/ owned' = (owned /\ AnyActive)
        BY <2>5 DEF StartAborts, StopEnds
      <3>3. owned /\ AnyActive => owned'
        BY <3>2
      <3>. QED  BY <3>1, <3>3 DEF Active, AnyActive
    <2>. QED  BY <1>6, <2>1, <2>2, <2>3, <2>4, <2>5 DEF Lifespan
  <1>7. CASE Operator
    BY <1>1, <1>7 DEF Operator, SetKillFile, DashboardStop, DashboardPause, DashboardResume,
                      Controlled, Active
  <1>8. CASE UNCHANGED vars
    BY <1>1, <1>8 DEF vars, Active
  <1>. QED  BY <1>2, <1>3, <1>4, <1>5, <1>6, <1>7, <1>8 DEF Next

\* The lock still covers every callback.
LEMMA LockStep ==
    ASSUME ControlInv, [Next]_vars
    PROVE  LockCoversCallbacks'
  <1>1. ASSUME NEW k \in Keys, Active(k)'
        PROVE  owned'
    <2>1. AnyActive'
      BY <1>1 DEF AnyActive
    <2>2. CASE Active(k)
      BY <2>1, <2>2, ActivityStep DEF ControlInv, LockCoversCallbacks, AnyActive
    <2>3. CASE ~Active(k)
      BY <1>1, <2>3, ActivityStep
    <2>. QED  BY <2>2, <2>3
  <1>. QED  BY <1>1 DEF LockCoversCallbacks, AnyActive

\* One step keeps PhaseInv.
LEMMA PhaseStep ==
    ASSUME ControlInv, [Next]_vars
    PROVE  PhaseInv'
  <1>0. {"reconciliation", "health"} \subseteq Keys /\ Probes \subseteq Keys
        /\ Loops \subseteq Keys /\ "health" \in Loops /\ cb \in [Keys -> Tasks]
        /\ "health" \notin Probes \union {"reconciliation"} /\ "reconciliation" \notin Loops
        /\ loop \in [Loops -> {"none", "sleep", "await", "ended"}]
        /\ Probes \intersect Loops = {}
        /\ health \in Evaluations
    BY JobsAssumption DEF Keys, Loops, Probes, ControlInv, ControlOK
  <1>1. PhaseInv
    BY DEF ControlInv
  <1>2. ASSUME UNCHANGED <<phase, owned, timedOut, recon, loop>>,
               health'.pc = health.pc, health'.owner = health.owner,
               Active("health") => Active("health")'
        PROVE  PhaseInv'
    BY <1>1, <1>2 DEF PhaseInv
  <1>3. CASE Callback
    <2>1. ASSUME NEW k \in Keys \ {"health"}, NEW r, CallbackEnds(k, r)
          PROVE  PhaseInv'
      BY <1>0, <1>2, <2>1 DEF CallbackEnds, Active
    <2>2. ASSUME NEW k, NEW field, NEW b, CallbackWrites(k, field, b)
          PROVE  PhaseInv'
      BY <1>2, <2>2 DEF CallbackWrites, Active
    <2>. QED  BY <1>3, <2>1, <2>2 DEF Callback
  <1>4. CASE Reconcile
    <2>1. CASE ReconcileReturns \/ ReconcileDeadline
      <3>1. /\ UNCHANGED <<phase, owned, loop>> /\ recon' = "idle"
            /\ Active("health") => Active("health")'
            /\ timedOut' = timedOut \/ timedOut' = timedOut \union {"reconciliation"}
            /\ phase = "new" => timedOut' = timedOut
        BY <1>0, <1>1, <2>1
        DEF ReconcileReturns, ReconcileDeadline, ReconcileDone, Active, PhaseInv
      <3>2. \/ health' = health
            \/ recon = "start" /\ health'.pc = "begin" /\ health'.owner = "start"
        BY <2>1, HealthFacts DEF ReconcileReturns, ReconcileDeadline, ReconcileDone
      <3>. QED  BY <1>0, <1>1, <3>1, <3>2 DEF PhaseInv
    <2>2. CASE ForceReconcile
      BY <1>0, <1>1, <2>2 DEF ForceReconcile, PhaseInv, Active
    <2>3. CASE ReconcileCancelled \/ ForceReconcileRefused
      BY <1>0, <1>1, <2>3 DEF ReconcileCancelled, ForceReconcileRefused, PhaseInv, Active
    <2>4. CASE RequestCancelled
      BY <1>0, <1>1, <2>4, CancelFacts DEF RequestCancelled, PhaseInv, Active, ControlInv
    <2>. QED  BY <1>4, <2>1, <2>2, <2>3, <2>4 DEF Reconcile
  <1>5. CASE Health
    <2>1. ASSUME NEW keys \in {{"database", "broker"}, {"execution"}}, NEW c,
                 StartProbes(keys, c), health.pc # "idle"
          PROVE  PhaseInv'
      <3>1. UNCHANGED <<phase, owned, timedOut, recon, loop>>
        BY <2>1 DEF StartProbes
      <3>2. health'.owner = health.owner
        BY <1>0, <2>1 DEF StartProbes, Evaluations
      <3>3. Active("health") => Active("health")'
        BY <1>0, <2>1 DEF StartProbes, Active
      <3>. QED  BY <1>1, <2>1, <3>1, <3>2, <3>3 DEF PhaseInv
    <2>2. CASE HealthBegin \/ HealthExecution
      BY <2>1, <2>2 DEF HealthBegin, HealthExecution
    <2>3. ASSUME NEW k \in Probes, ProbeReturns(k)
          PROVE  PhaseInv'
      <3>1. health'.pc = health.pc /\ health'.owner = health.owner
        BY <1>0, <2>3 DEF ProbeReturns, Evaluations
      <3>2. Active("health") => Active("health")'
        BY <1>0, <2>3 DEF ProbeReturns, Active
      <3>. QED  BY <1>2, <2>3, <3>1, <3>2 DEF ProbeReturns
    <2>4. ASSUME NEW k \in Probes, ProbeDeadline(k)
          PROVE  PhaseInv'
      <3>1. health'.pc = health.pc /\ health'.owner = health.owner
        BY <1>0, <2>4 DEF ProbeDeadline, Evaluations
      <3>2. Active("health") => Active("health")'
        BY <1>0, <2>4 DEF ProbeDeadline, Active
      <3>3. owned
        BY <1>0, <2>4 DEF ProbeDeadline, ControlInv, LockCoversCallbacks, AnyActive
      <3>4. UNCHANGED <<phase, owned, recon, loop>> /\ timedOut' = timedOut \union {k}
        BY <2>4 DEF ProbeDeadline
      <3>. QED  BY <1>0, <1>1, <2>4, <3>1, <3>2, <3>3, <3>4 DEF PhaseInv
    <2>5. CASE HealthFinish
      <3>1. CASE health.owner = "start"
        <4>1. phase = "starting"
          BY <1>1, <2>5, <3>1 DEF HealthFinish, PhaseInv
        <4>2. Loops \intersect timedOut = {}
          BY <1>0, <1>1, <4>1 DEF PhaseInv
        <4>3. owned /\ recon # "start"
          BY <1>1, <2>5, <4>1 DEF PhaseInv, HealthFinish
        <4>4. phase' = "running" /\ loop' = [j \in Loops |-> "sleep"]
          BY <2>5, <3>1 DEF HealthFinish
        <4>5. UNCHANGED <<owned, timedOut, recon>> /\ health'.pc = "idle"
          BY <2>5, HealthFacts DEF HealthFinish
        <4>. QED  BY <4>2, <4>3, <4>4, <4>5 DEF PhaseInv
      <3>2. CASE health.owner # "start"
        BY <1>1, <2>5, <3>2, HealthFacts DEF HealthFinish, PhaseInv
      <3>. QED  BY <3>1, <3>2
    <2>6. CASE HealthAborted
      BY <1>1, <2>6, HealthFacts DEF HealthAborted, PhaseInv
    <2>. QED  BY <1>5, <2>2, <2>3, <2>4, <2>5, <2>6 DEF Health
  <1>6. CASE JobLoops
    <2>1. ASSUME NEW j \in Loops, JobStarts(j)
          PROVE  PhaseInv'
      <3>1. phase = "running" /\ j \notin timedOut
        BY <1>1, <2>1 DEF JobStarts, PhaseInv
      <3>2. \/ health' = health /\ (Active("health") => Active("health")')
            \/ health'.pc = "begin" /\ health'.owner = "loop" /\ Active("health")'
        BY <1>0, <2>1, HealthFacts DEF JobStarts, Active
      <3>. QED  BY <1>0, <1>1, <2>1, <3>1, <3>2 DEF JobStarts, PhaseInv
    <2>2. ASSUME NEW j \in Loops, JobReturns(j)
          PROVE  PhaseInv'
      <3>1. phase = "running"
        BY <1>1, <2>2 DEF JobReturns, PhaseInv
      <3>2. Active("health") => Active("health")'
        BY <1>0, <2>2 DEF JobReturns, Active
      <3>3. j \notin timedOut
        BY <1>1, <2>2 DEF JobReturns, PhaseInv
      <3>. QED  BY <1>0, <1>1, <2>2, <3>1, <3>2, <3>3 DEF JobReturns, PhaseInv
    <2>3. ASSUME NEW j \in Loops, JobDeadline(j)
          PROVE  PhaseInv'
      <3>1. phase = "running"
        BY <1>1, <2>3 DEF JobDeadline, PhaseInv
      <3>2. Active("health") => Active("health")'
        BY <1>0, <2>3 DEF JobDeadline, Active
      <3>. QED  BY <1>0, <1>1, <2>3, <3>1, <3>2 DEF JobDeadline, PhaseInv
    <2>. QED  BY <1>6, <2>1, <2>2, <2>3 DEF JobLoops
  <1>7. CASE Lifespan
    <2>1. CASE Start
      <3>1. Active("health") => Active("health")'
        BY <1>0, <2>1 DEF Start, Active
      <3>2. health.pc = "idle"
        BY <1>0, <1>1, <2>1 DEF Start, PhaseInv, ControlInv, LockCoversCallbacks, AnyActive
      <3>. QED  BY <1>1, <2>1, <3>1, <3>2 DEF Start, PhaseInv
    <2>2. CASE StartRefused
      BY <1>1, <2>2 DEF StartRefused, PhaseInv, Active
    <2>3. CASE StartCancelled
      BY <1>1, <2>3, HealthFacts DEF StartCancelled, PhaseInv
    <2>4. CASE StartAborts
      BY <1>1, <2>4 DEF StartAborts, PhaseInv, Active
    <2>5. CASE Stop
      <3>1. Active("health") => Active("health")'
        BY <1>0, <2>5 DEF Stop, Active
      <3>. QED  BY <1>1, <2>5, <3>1 DEF Stop, PhaseInv
    <2>6. CASE StopEnds
      BY <1>1, <2>6 DEF StopEnds, PhaseInv, Active
    <2>. QED  BY <1>7, <2>1, <2>2, <2>3, <2>4, <2>5, <2>6 DEF Lifespan
  <1>8. CASE Operator
    BY <1>2, <1>8 DEF Operator, SetKillFile, DashboardStop, DashboardPause, DashboardResume,
                      Controlled, Active
  <1>9. CASE UNCHANGED vars
    BY <1>2, <1>9 DEF vars, Active
  <1>. QED  BY <1>3, <1>4, <1>5, <1>6, <1>7, <1>8, <1>9 DEF Next

-----------------------------------------------------------------------------
(* Theorems                                                                *)

\* The invariant is its safety part and its control part.
LEMMA InvParts ==
    MasterInv <=> /\ ControlInv
                  /\ view \in Views /\ controller \in Controllers
                  /\ LatchHalts /\ NormalRestsOnEvidence
  BY DEF MasterInv, ControlInv, ControlOK, TypeOK, Evaluations

\* Late writes and late results are withdrawn when the callback ends: the latch
\* is enforced in every step after which nothing runs, or nothing ran before.
LEMMA ViewLatchStep ==
    ASSUME MasterInv, [Next]_vars, timedOut' # {}, ~AnyActive'
    PROVE  ~view'.reconciled /\ ~view'.exec
  <1>0. /\ Sound(view, controller)
        /\ Sound(view, degrade(controller, "ENTRY_DISABLED"))
        /\ killClear \in BOOLEAN
        /\ view \in Views
        /\ cb \in [Keys -> Tasks]
    BY SoundNow DEF MasterInv, TypeOK
  <1>. DEFINE Off == ~view'.reconciled /\ ~view'.exec
  <1>1. ASSUME timedOut' = timedOut, AnyActive => AnyActive',
               view'.reconciled => view.reconciled, view'.exec => view.exec
        PROVE  Off
    BY <1>1 DEF MasterInv, LatchHalts
  <1>2. ASSUME NEW v, NEW c, Sound(v, c), EnforceLatch(v, c, timedOut')
        PROVE  Off
    BY <1>0, <1>2, EnforceFacts
  <1>3. CASE Callback
    <2>1. ASSUME NEW k, NEW r, CallbackEnds(k, r)
          PROVE  Off
      BY <1>0, <1>2, <2>1 DEF CallbackEnds
    <2>2. ASSUME NEW k \in Keys, NEW field, NEW b, CallbackWrites(k, field, b)
          PROVE  FALSE
      BY <2>2 DEF CallbackWrites, Active, AnyActive
    <2>. QED  BY <1>3, <2>1, <2>2 DEF Callback
  <1>4. CASE Reconcile
    <2>1. CASE ReconcileReturns
      <3>. DEFINE ok == cb["reconciliation"] = "true" /\ timedOut = {}
                  c == IF ok THEN controller ELSE Disabled(controller)
      <3>1. Sound([view EXCEPT !.reconciled = ok], c)
        BY <1>0, SoundFlag DEF Disabled
      <3>2. EnforceLatch([view EXCEPT !.reconciled = ok], c, timedOut')
        BY <2>1 DEF ReconcileReturns
      <3>. HIDE DEF ok, c
      <3>. QED  BY <1>2, <3>1, <3>2
    <2>2. CASE ReconcileDeadline
      BY <1>0, <1>2, <2>2 DEF ReconcileDeadline, Disabled
    <2>3. CASE ForceReconcile
      BY <2>3 DEF ForceReconcile
    <2>4. CASE ForceReconcileRefused
      <3>. DEFINE v == [view EXCEPT !.reconciled = FALSE]
                  c == IF timedOut = {} /\ stop THEN controller ELSE Disabled(controller)
      <3>1. Sound(v, c)
        BY <1>0, SoundFlag DEF Disabled
      <3>2. EnforceLatch(v, c, timedOut')
        BY <2>4 DEF ForceReconcileRefused
      <3>. HIDE DEF v, c
      <3>. QED  BY <1>2, <3>1, <3>2
    <2>5. CASE ReconcileCancelled
      <3>1. \A k \in Keys : Active(k) => Active(k)'
        BY <1>0, <2>5 DEF ReconcileCancelled, Active
      <3>. QED  BY <1>1, <2>5, <3>1 DEF ReconcileCancelled, AnyActive
    <2>6. CASE RequestCancelled
      <3>1. \A k \in Keys : Active(k) => Active(k)'
        BY <2>6, CancelFacts, InvParts DEF RequestCancelled, Active, ControlInv
      <3>. QED  BY <1>1, <2>6, <3>1 DEF RequestCancelled, AnyActive
    <2>. QED  BY <1>4, <2>1, <2>2, <2>3, <2>4, <2>5, <2>6 DEF Reconcile
  <1>5. CASE Health
    <2>1. ASSUME NEW keys, NEW c, StartProbes(keys, c), Sound(view, c),
                 Sound(view, Disabled(c))
          PROVE  Off
      <3>1. CASE keys \intersect timedOut = {}
        <4>1. view' = view /\ timedOut' = timedOut
          BY <2>1, <3>1 DEF StartProbes, EnforceLatch, enforced_view
        <4>2. \A k \in Keys : Active(k) => Active(k)'
          BY <2>1 DEF StartProbes, Active
        <4>. QED  BY <1>1, <4>1, <4>2 DEF AnyActive
      <3>2. CASE keys \intersect timedOut # {}
        BY <1>2, <2>1, <3>2 DEF StartProbes
      <3>. QED  BY <3>1, <3>2
    <2>2. CASE HealthBegin
      <3>1. Sound(view, Disabled(emergency_stop(controller)))
            /\ Sound(view, emergency_stop(controller))
        BY <1>0, SoundNow, DegradeFacts, StopFacts DEF Sound, Disabled
      <3>2. Sound(view, Disabled(controller))
        BY <1>0 DEF Disabled
      <3>. QED  BY <1>0, <2>1, <2>2, <3>1, <3>2 DEF HealthBegin
    <2>3. CASE HealthExecution
      BY <1>0, <2>1, <2>3 DEF HealthExecution, Disabled
    <2>4. ASSUME NEW k \in Probes, ProbeReturns(k)
          PROVE  Off
      <3>1. \A l \in Keys : Active(l) => Active(l)'
        BY <1>0, <2>4 DEF ProbeReturns, Active
      <3>. QED  BY <1>1, <2>4, <3>1 DEF ProbeReturns, AnyActive
    <2>5. ASSUME NEW k \in Probes, ProbeDeadline(k)
          PROVE  Off
      BY <1>0, <1>2, <2>5 DEF ProbeDeadline, Disabled
    <2>6. CASE HealthFinish
      <3>1. timedOut' = timedOut
        BY <2>6 DEF HealthFinish
      <3>. QED  BY <1>2, <2>6, <3>1, HealthFinishSound
    <2>7. CASE HealthAborted
      BY <1>0, <1>2, <2>7 DEF HealthAborted
    <2>. QED  BY <1>5, <2>2, <2>3, <2>4, <2>5, <2>6, <2>7 DEF Health
  <1>6. CASE JobLoops
    <2>0. Loops \subseteq Keys
      BY DEF Keys
    <2>1. ASSUME NEW j \in Loops, JobStarts(j) \/ JobReturns(j)
          PROVE  Off
      <3>1. \A l \in Keys : Active(l) => Active(l)'
        BY <1>0, <2>0, <2>1 DEF JobStarts, JobReturns, Active
      <3>. QED  BY <1>1, <2>1, <3>1 DEF JobStarts, JobReturns, AnyActive
    <2>2. ASSUME NEW j \in Loops, JobDeadline(j)
          PROVE  Off
      BY <1>0, <1>2, <2>2 DEF JobDeadline, Disabled
    <2>. QED  BY <1>6, <2>1, <2>2 DEF JobLoops
  <1>7. CASE Lifespan
    <2>1. CASE Start
      BY <2>1 DEF Start, MasterInv, PhaseInv
    <2>2. CASE StartRefused \/ StartAborts \/ StopEnds
      BY <1>1, <2>2 DEF StartRefused, StartAborts, StopEnds, AnyActive, Active
    <2>3. CASE StartCancelled
      <3>1. \A k \in Keys : Active(k) => Active(k)'
        BY <2>3, CancelFacts, InvParts DEF StartCancelled, Active, ControlInv
      <3>. QED  BY <1>1, <2>3, <3>1 DEF StartCancelled, AnyActive
    <2>4. CASE Stop
      <3>1. \A k \in Keys : Active(k) => Active(k)'
        BY <2>4 DEF Stop, Active
      <3>. QED  BY <1>1, <2>4, <3>1 DEF Stop, AnyActive
    <2>. QED  BY <1>7, <2>1, <2>2, <2>3, <2>4 DEF Lifespan
  <1>8. CASE Operator
    BY <1>1, <1>8 DEF Operator, SetKillFile, DashboardStop, DashboardPause, DashboardResume,
                      Controlled, Active, AnyActive
  <1>9. CASE UNCHANGED vars
    BY <1>1, <1>9 DEF vars, Active, AnyActive
  <1>. QED  BY <1>3, <1>4, <1>5, <1>6, <1>7, <1>8, <1>9 DEF Next

\* The controller starts with nothing running and nothing known.
LEMMA InitInv == Init => MasterInv
  <1>. SUFFICES ASSUME Init PROVE MasterInv
    OBVIOUS
  <1>1. Startup \in Controllers /\ Startup.state = "ENTRY_DISABLED"
    BY DEF Startup, Controllers, RuntimeSafetyStates, NoTime
  <1>2. controller \in Controllers /\ controller.state # "NORMAL"
    BY <1>1, StopFacts DEF Init
  <1>3. view \in Views
    BY DEF Init, Views
  <1>4. ControlOK
    BY HealthFacts DEF Init, ControlOK, Tasks
  <1>5. ~AnyActive
    BY DEF Init, AnyActive, Active
  <1>6. PhaseInv
    BY HealthFacts DEF Init, PhaseInv
  <1>7. LatchHalts /\ NormalRestsOnEvidence /\ LockCoversCallbacks
    BY <1>2, <1>5 DEF Init, LatchHalts, NormalRestsOnEvidence, LockCoversCallbacks
  <1>. QED  BY <1>2, <1>3, <1>4, <1>6, <1>7, InvParts DEF ControlInv

\* MasterController keeps MasterInv: the types, what may be under way in each
\* phase of the lifespan, and the three properties below.
THEOREM MasterInvHolds == Spec => []MasterInv
  <1>1. MasterInv /\ [Next]_vars => MasterInv'
    <2>. SUFFICES ASSUME MasterInv, [Next]_vars PROVE MasterInv'
      OBVIOUS
    <2>1. ControlInv
      BY InvParts
    <2>2. ControlOK' /\ PhaseInv' /\ LockCoversCallbacks'
      BY <2>1, ControlStep, PhaseStep, LockStep DEF ControlInv
    <2>3. /\ view' \in Views /\ controller' \in Controllers /\ NormalRestsOnEvidence'
          /\ timedOut' # {} => controller'.state = "HALTED"
      BY SafetyStep DEF Sound, NormalRestsOnEvidence
    <2>4. LatchHalts'
      BY <2>3, ViewLatchStep DEF LatchHalts
    <2>5. TypeOK'
      BY <2>2, <2>3 DEF TypeOK, ControlOK, Evaluations
    <2>. QED  BY <2>2, <2>3, <2>4, <2>5 DEF MasterInv
  <1>. QED  BY InitInv, <1>1, PTL DEF Spec

\* A missed deadline halts the runtime and no late result restores health.
THEOREM DeadlineHalts == Spec => []LatchHalts
  <1>1. MasterInv => LatchHalts
    BY DEF MasterInv
  <1>. QED  BY MasterInvHolds, <1>1, PTL

\* The instance lock is held as long as any callback runs.
THEOREM LockOutlivesCallbacks == Spec => []LockCoversCallbacks
  <1>1. MasterInv => LockCoversCallbacks
    BY DEF MasterInv
  <1>. QED  BY MasterInvHolds, <1>1, PTL

\* Entries are never enabled without complete evidence on record.
THEOREM NormalIsEvidenced == Spec => []NormalRestsOnEvidence
  <1>1. MasterInv => NormalRestsOnEvidence
    BY DEF MasterInv
  <1>. QED  BY MasterInvHolds, <1>1, PTL

\* A callback that missed its deadline is never started again.
THEOREM TimedOutStaysOut == Spec => NeverReplayed
  <1>1. MasterInv /\ [Next]_vars =>
          [\A k \in timedOut : ~Active(k) => ~Active(k)']_vars
    <2>. SUFFICES ASSUME MasterInv, [Next]_vars, NEW k \in timedOut, ~Active(k)
                  PROVE  ~Active(k)'
      OBVIOUS
    <2>1. ControlInv /\ k \in Keys
      BY InvParts DEF MasterInv, TypeOK
    <2>. QED  BY <2>1, ActivityStep
  <1>. QED  BY MasterInvHolds, <1>1, PTL DEF Spec, NeverReplayed

\* No control of the running application ends a halt.
THEOREM HaltLasts == Spec => HaltIsFinal
  <1>1. MasterInv /\ [Next]_vars =>
          [controller.state = "HALTED" => controller'.state = "HALTED"]_vars
    BY SafetyStep DEF Sound
  <1>. QED  BY MasterInvHolds, <1>1, PTL DEF Spec, HaltIsFinal

=============================================================================
