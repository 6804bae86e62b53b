--------------------------- MODULE Session_proofs ---------------------------
(***************************************************************************)
(* Theorems of Session, SessionTurns and SessionStream for every value of   *)
(* their constants.                                                         *)
(***************************************************************************)
EXTENDS SessionTurns, SessionStream, TLAPS

----------------------------------------------------------------------------
(* What the program counter of mainLoopTask says of the peer and of the turn. *)

MainTracksPeer ==
  /\ mpc \in {"fetch", "create", "abandon", "resetnull"} => peer = "none"
  /\ mpc = "offer" => peer = "new" /\ ~answer
  /\ mpc \in {"teardown", "drop", "giveup", "tick"} => peer # "none"
  /\ mpc \in {"handshake", "completing", "completed"} => peer = "connected"
  /\ mpc = "reply" => peer = "completed"

MainSawTurn ==
  /\ mpc \notin {"delay", "abandon", "resetnull", "teardown"} => prev_want
  /\ mpc = "teardown" => ~prev_want

FreshMeansEmpty == enc_fresh => ring = << >>

PeerInv ==
  /\ NoSendOnDestroyedPeer
  /\ ConnectedTracksPeer
  /\ AnswerMatchesPeer
  /\ MainTracksPeer
  /\ MainSawTurn

UplinkInv == FreshMeansEmpty /\ OneUtterance

IInv == TypeOK /\ PeerInv /\ UplinkInv

(* The flags stay Booleans.                                                 *)
LEMMA FlagsStep ==
  ASSUME FlagsOK, [Next]_vars PROVE FlagsOK'
<1> USE DEF FlagsOK, Iterate, NextFrame, EndIteration, shared, uplink, libpeer, main,
      capture
<1>1. CASE LoopConnect BY <1>1 DEF LoopConnect
<1>2. CASE LoopTeardown BY <1>2 DEF LoopTeardown
<1>3. CASE LoopReconnect BY <1>3 DEF LoopReconnect
<1>4. CASE LoopGiveUp BY <1>4 DEF LoopGiveUp
<1>5. CASE LoopPump BY <1>5 DEF LoopPump
<1>6. CASE LoopIdle BY <1>6 DEF LoopIdle
<1>7. CASE FetchIce BY <1>7 DEF FetchIce
<1>8. CASE CreatePeer BY <1>8 DEF CreatePeer
<1>9. CASE OfferAnswered BY <1>9 DEF OfferAnswered
<1>10. CASE OfferFailed BY <1>10 DEF OfferFailed
<1>11. CASE AbandonTurn BY <1>11 DEF AbandonTurn
<1>12. CASE ResetNull BY <1>12 DEF ResetNull
<1>13. CASE Teardown BY <1>13 DEF Teardown, DestroyPeer
<1>14. CASE Drop BY <1>14 DEF Drop, DestroyPeer
<1>15. CASE GiveUp BY <1>15 DEF GiveUp
<1>16. CASE PumpNew BY <1>16 DEF PumpNew
<1>17. CASE PumpChecking BY <1>17 DEF PumpChecking
<1>18. CASE ChecksFail BY <1>18 DEF ChecksFail
<1>19. CASE StartHandshake BY <1>19 DEF StartHandshake
<1>20. CASE HandshakeFails BY <1>20 DEF HandshakeFails
<1>21. CASE HandshakeDone BY <1>21 DEF HandshakeDone
<1>22. CASE OnCompleted BY <1>22 DEF OnCompleted
<1>23. CASE AssignCompleted BY <1>23 DEF AssignCompleted
<1>24. CASE PumpQuiet BY <1>24 DEF PumpQuiet
<1>25. CASE PumpReply BY <1>25 DEF PumpReply
<1>26. CASE ReplyDeadline BY <1>26 DEF ReplyDeadline
<1>27. CASE PumpDead BY <1>27 DEF PumpDead
<1>28. CASE CapRead BY <1>28 DEF CapRead
<1>28a. CASE CapReadFails BY <1>28a DEF CapReadFails
<1>29. ASSUME NEW loud \in BOOLEAN, CapGuard(loud) PROVE FlagsOK'
  BY <1>29 DEF CapGuard, GuardActive
<1>30. CASE CapExtend BY <1>30 DEF CapExtend
<1>31. ASSUME NEW fires \in BOOLEAN, CapDetect(fires) PROVE FlagsOK'
  BY <1>31 DEF CapDetect
<1>32. CASE CapArmNew BY <1>32 DEF CapArmNew
<1>33. CASE CapArm BY <1>33 DEF CapArm
<1>34. CASE CapExpire BY <1>34 DEF CapExpire
<1>35. CASE CapEnd BY <1>35 DEF CapEnd
<1>36. CASE CapSkip BY <1>36 DEF CapSkip
<1>37. CASE CapEncode BY <1>37 DEF CapEncode
<1>38. CASE CapLock BY <1>38 DEF CapLock
<1>39. CASE CapSend BY <1>39 DEF CapSend
<1>40. CASE CapUnlock BY <1>40 DEF CapUnlock
<1>41. CASE Tick BY <1>41 DEF Tick
<1>42. CASE UNCHANGED vars BY <1>42 DEF vars
<1> QED
  BY <1>1, <1>2, <1>3, <1>4, <1>5, <1>6, <1>7, <1>8, <1>9, <1>10, <1>11, <1>12, <1>13,
      <1>14, <1>15, <1>16, <1>17, <1>18, <1>19, <1>20, <1>21, <1>22, <1>23, <1>24,
      <1>25, <1>26, <1>27, <1>28, <1>28a, <1>29, <1>30, <1>31, <1>32, <1>33, <1>34, <1>35,
      <1>36, <1>37, <1>38, <1>39, <1>40, <1>41, <1>42
    DEF Next, Main, Decide, Pump, Capture

(* No clock leaves its window.                                              *)
LEMMA TimersStep ==
  ASSUME TimersOK, [Next]_vars PROVE TimersOK'
<1> USE SessionAssumption DEF TimersOK, Window, Greater, Lesser, NoFrame, Blocking,
      Iterate, NextFrame, EndIteration, shared, uplink, libpeer, main, capture
<1>1. CASE LoopConnect BY <1>1 DEF LoopConnect
<1>2. CASE LoopTeardown BY <1>2 DEF LoopTeardown
<1>3. CASE LoopReconnect BY <1>3 DEF LoopReconnect
<1>4. CASE LoopGiveUp BY <1>4 DEF LoopGiveUp
<1>5. CASE LoopPump BY <1>5 DEF LoopPump
<1>6. CASE LoopIdle BY <1>6 DEF LoopIdle
<1>7. CASE FetchIce BY <1>7 DEF FetchIce
<1>8. CASE CreatePeer BY <1>8 DEF CreatePeer
<1>9. CASE OfferAnswered BY <1>9 DEF OfferAnswered
<1>10. CASE OfferFailed BY <1>10 DEF OfferFailed
<1>11. CASE AbandonTurn BY <1>11 DEF AbandonTurn
<1>12. CASE ResetNull BY <1>12 DEF ResetNull
<1>13. CASE Teardown BY <1>13 DEF Teardown, DestroyPeer
<1>14. CASE Drop BY <1>14 DEF Drop, DestroyPeer
<1>15. CASE GiveUp BY <1>15 DEF GiveUp
<1>16. CASE PumpNew BY <1>16 DEF PumpNew
<1>17. CASE PumpChecking BY <1>17 DEF PumpChecking
<1>18. CASE ChecksFail BY <1>18 DEF ChecksFail
<1>19. CASE StartHandshake BY <1>19 DEF StartHandshake
<1>20. CASE HandshakeFails BY <1>20 DEF HandshakeFails
<1>21. CASE HandshakeDone BY <1>21 DEF HandshakeDone
<1>22. CASE OnCompleted BY <1>22 DEF OnCompleted
<1>23. CASE AssignCompleted BY <1>23 DEF AssignCompleted
<1>24. CASE PumpQuiet BY <1>24 DEF PumpQuiet
<1>25. CASE PumpReply BY <1>25 DEF PumpReply
<1>26. CASE ReplyDeadline BY <1>26 DEF ReplyDeadline
<1>27. CASE PumpDead BY <1>27 DEF PumpDead
<1>28. CASE CapRead BY <1>28 DEF CapRead
<1>28a. CASE CapReadFails BY <1>28a DEF CapReadFails
<1>29. ASSUME NEW loud \in BOOLEAN, CapGuard(loud) PROVE TimersOK'
  BY <1>29 DEF CapGuard
<1>30. CASE CapExtend BY <1>30 DEF CapExtend
<1>31. ASSUME NEW fires \in BOOLEAN, CapDetect(fires) PROVE TimersOK'
  BY <1>31 DEF CapDetect
<1>32. CASE CapArmNew BY <1>32 DEF CapArmNew
<1>33. CASE CapArm BY <1>33 DEF CapArm
<1>34. CASE CapExpire BY <1>34 DEF CapExpire
<1>35. CASE CapEnd BY <1>35 DEF CapEnd
<1>36. CASE CapSkip BY <1>36 DEF CapSkip
<1>37. CASE CapEncode BY <1>37 DEF CapEncode
<1>38. CASE CapLock BY <1>38 DEF CapLock
<1>39. CASE CapSend BY <1>39 DEF CapSend
<1>40. CASE CapUnlock BY <1>40 DEF CapUnlock
<1>41. CASE Tick BY <1>41 DEF Tick
<1>42. CASE UNCHANGED vars BY <1>42 DEF vars
<1> QED
  BY <1>1, <1>2, <1>3, <1>4, <1>5, <1>6, <1>7, <1>8, <1>9, <1>10, <1>11, <1>12, <1>13,
      <1>14, <1>15, <1>16, <1>17, <1>18, <1>19, <1>20, <1>21, <1>22, <1>23, <1>24,
      <1>25, <1>26, <1>27, <1>28, <1>28a, <1>29, <1>30, <1>31, <1>32, <1>33, <1>34, <1>35,
      <1>36, <1>37, <1>38, <1>39, <1>40, <1>41, <1>42
    DEF Next, Main, Decide, Pump, Capture

(* Counters and the backlog keep within their bounds.                       *)
LEMMA CountsStep ==
  ASSUME FlagsOK, CountsOK, [Next]_vars PROVE CountsOK'
<1> USE SessionAssumption DEF CountsOK, FlagsOK, Greater, Iterate, NextFrame,
      EndIteration, shared, uplink, libpeer, main, capture, Budget
<1>1. CASE LoopConnect BY <1>1 DEF LoopConnect
<1>2. CASE LoopTeardown BY <1>2 DEF LoopTeardown
<1>3. CASE LoopReconnect BY <1>3 DEF LoopReconnect
<1>4. CASE LoopGiveUp BY <1>4 DEF LoopGiveUp
<1>5. CASE LoopPump BY <1>5 DEF LoopPump
<1>6. CASE LoopIdle BY <1>6 DEF LoopIdle
<1>7. CASE FetchIce BY <1>7 DEF FetchIce
<1>8. CASE CreatePeer BY <1>8 DEF CreatePeer
<1>9. CASE OfferAnswered BY <1>9 DEF OfferAnswered
<1>10. CASE OfferFailed BY <1>10 DEF OfferFailed
<1>11. CASE AbandonTurn BY <1>11 DEF AbandonTurn
<1>12. CASE ResetNull BY <1>12 DEF ResetNull
<1>13. CASE Teardown BY <1>13 DEF Teardown, DestroyPeer
<1>14. CASE Drop BY <1>14 DEF Drop, DestroyPeer
<1>15. CASE GiveUp BY <1>15 DEF GiveUp
<1>16. CASE PumpNew BY <1>16 DEF PumpNew
<1>17. CASE PumpChecking BY <1>17 DEF PumpChecking
<1>18. CASE ChecksFail BY <1>18 DEF ChecksFail
<1>19. CASE StartHandshake BY <1>19 DEF StartHandshake
<1>20. CASE HandshakeFails BY <1>20 DEF HandshakeFails
<1>21. CASE HandshakeDone BY <1>21 DEF HandshakeDone
<1>22. CASE OnCompleted BY <1>22 DEF OnCompleted
<1>23. CASE AssignCompleted BY <1>23 DEF AssignCompleted
<1>24. CASE PumpQuiet BY <1>24 DEF PumpQuiet
<1>25. CASE PumpReply BY <1>25 DEF PumpReply
<1>26. CASE ReplyDeadline BY <1>26 DEF ReplyDeadline
<1>27. CASE PumpDead BY <1>27 DEF PumpDead
<1>28. CASE CapRead BY <1>28 DEF CapRead
<1>28a. CASE CapReadFails BY <1>28a DEF CapReadFails
<1>29. ASSUME NEW loud \in BOOLEAN, CapGuard(loud) PROVE CountsOK'
  BY <1>29 DEF CapGuard
<1>30. CASE CapExtend BY <1>30 DEF CapExtend
<1>31. ASSUME NEW fires \in BOOLEAN, CapDetect(fires) PROVE CountsOK'
  BY <1>31 DEF CapDetect
<1>32. CASE CapArmNew BY <1>32 DEF CapArmNew
<1>33. CASE CapArm BY <1>33 DEF CapArm
<1>34. CASE CapExpire BY <1>34 DEF CapExpire
<1>35. CASE CapEnd BY <1>35 DEF CapEnd
<1>36. CASE CapSkip BY <1>36 DEF CapSkip
<1>37. CASE CapEncode BY <1>37 DEF CapEncode, RingPush, Packets
<1>38. CASE CapLock BY <1>38 DEF CapLock
<1>39. CASE CapSend BY <1>39 DEF CapSend
<1>40. CASE CapUnlock BY <1>40 DEF CapUnlock
<1>41. CASE Tick BY <1>41 DEF Tick
<1>42. CASE UNCHANGED vars BY <1>42 DEF vars
<1> QED
  BY <1>1, <1>2, <1>3, <1>4, <1>5, <1>6, <1>7, <1>8, <1>9, <1>10, <1>11, <1>12, <1>13,
      <1>14, <1>15, <1>16, <1>17, <1>18, <1>19, <1>20, <1>21, <1>22, <1>23, <1>24,
      <1>25, <1>26, <1>27, <1>28, <1>28a, <1>29, <1>30, <1>31, <1>32, <1>33, <1>34, <1>35,
      <1>36, <1>37, <1>38, <1>39, <1>40, <1>41, <1>42
    DEF Next, Main, Decide, Pump, Capture

(* Program counters and peer states stay what they are declared to be.      *)
LEMMA PlacesStep ==
  ASSUME PlacesOK, [Next]_vars PROVE PlacesOK'
<1> USE DEF PlacesOK, PeerStates, MainPcs, CapturePcs, Blocking, Iterate, NextFrame,
      EndIteration, shared, uplink, libpeer, main, capture
<1>1. CASE LoopConnect BY <1>1 DEF LoopConnect
<1>2. CASE LoopTeardown BY <1>2 DEF LoopTeardown
<1>3. CASE LoopReconnect BY <1>3 DEF LoopReconnect
<1>4. CASE LoopGiveUp BY <1>4 DEF LoopGiveUp
<1>5. CASE LoopPump BY <1>5 DEF LoopPump
<1>6. CASE LoopIdle BY <1>6 DEF LoopIdle
<1>7. CASE FetchIce BY <1>7 DEF FetchIce
<1>8. CASE CreatePeer BY <1>8 DEF CreatePeer
<1>9. CASE OfferAnswered BY <1>9 DEF OfferAnswered
<1>10. CASE OfferFailed BY <1>10 DEF OfferFailed
<1>11. CASE AbandonTurn BY <1>11 DEF AbandonTurn
<1>12. CASE ResetNull BY <1>12 DEF ResetNull
<1>13. CASE Teardown BY <1>13 DEF Teardown, DestroyPeer
<1>14. CASE Drop BY <1>14 DEF Drop, DestroyPeer
<1>15. CASE GiveUp BY <1>15 DEF GiveUp
<1>16. CASE PumpNew BY <1>16 DEF PumpNew
<1>17. CASE PumpChecking BY <1>17 DEF PumpChecking
<1>18. CASE ChecksFail BY <1>18 DEF ChecksFail
<1>19. CASE StartHandshake BY <1>19 DEF StartHandshake
<1>20. CASE HandshakeFails BY <1>20 DEF HandshakeFails
<1>21. CASE HandshakeDone BY <1>21 DEF HandshakeDone
<1>22. CASE OnCompleted BY <1>22 DEF OnCompleted
<1>23. CASE AssignCompleted BY <1>23 DEF AssignCompleted
<1>24. CASE PumpQuiet BY <1>24 DEF PumpQuiet
<1>25. CASE PumpReply BY <1>25 DEF PumpReply
<1>26. CASE ReplyDeadline BY <1>26 DEF ReplyDeadline
<1>27. CASE PumpDead BY <1>27 DEF PumpDead
<1>28. CASE CapRead BY <1>28 DEF CapRead
<1>28a. CASE CapReadFails BY <1>28a DEF CapReadFails
<1>29. ASSUME NEW loud \in BOOLEAN, CapGuard(loud) PROVE PlacesOK'
  BY <1>29 DEF CapGuard
<1>30. CASE CapExtend BY <1>30 DEF CapExtend
<1>31. ASSUME NEW fires \in BOOLEAN, CapDetect(fires) PROVE PlacesOK'
  BY <1>31 DEF CapDetect
<1>32. CASE CapArmNew BY <1>32 DEF CapArmNew
<1>33. CASE CapArm BY <1>33 DEF CapArm
<1>34. CASE CapExpire BY <1>34 DEF CapExpire
<1>35. CASE CapEnd BY <1>35 DEF CapEnd
<1>36. CASE CapSkip BY <1>36 DEF CapSkip
<1>37. CASE CapEncode BY <1>37 DEF CapEncode
<1>38. CASE CapLock BY <1>38 DEF CapLock
<1>39. CASE CapSend BY <1>39 DEF CapSend
<1>40. CASE CapUnlock BY <1>40 DEF CapUnlock
<1>41. CASE Tick BY <1>41 DEF Tick
<1>42. CASE UNCHANGED vars BY <1>42 DEF vars
<1> QED
  BY <1>1, <1>2, <1>3, <1>4, <1>5, <1>6, <1>7, <1>8, <1>9, <1>10, <1>11, <1>12, <1>13,
      <1>14, <1>15, <1>16, <1>17, <1>18, <1>19, <1>20, <1>21, <1>22, <1>23, <1>24,
      <1>25, <1>26, <1>27, <1>28, <1>28a, <1>29, <1>30, <1>31, <1>32, <1>33, <1>34, <1>35,
      <1>36, <1>37, <1>38, <1>39, <1>40, <1>41, <1>42
    DEF Next, Main, Decide, Pump, Capture

(* The peer, the flags that mirror it and mainLoop stay in step.            *)
LEMMA PeerStep ==
  ASSUME TypeOK, PeerInv, [Next]_vars PROVE PeerInv'
<1> USE DEF TypeOK, FlagsOK, PlacesOK, PeerInv, NoSendOnDestroyedPeer,
      ConnectedTracksPeer, AnswerMatchesPeer, MainTracksPeer, MainSawTurn, PeerLocked,
      Iterate, NextFrame, EndIteration, shared, uplink, libpeer, main, capture
<1>1. CASE LoopConnect BY <1>1 DEF LoopConnect
<1>2. CASE LoopTeardown BY <1>2 DEF LoopTeardown
<1>3. CASE LoopReconnect BY <1>3 DEF LoopReconnect
<1>4. CASE LoopGiveUp BY <1>4 DEF LoopGiveUp
<1>5. CASE LoopPump BY <1>5 DEF LoopPump
<1>6. CASE LoopIdle BY <1>6 DEF LoopIdle
<1>7. CASE FetchIce BY <1>7 DEF FetchIce
<1>8. CASE CreatePeer BY <1>8 DEF CreatePeer
<1>9. CASE OfferAnswered BY <1>9 DEF OfferAnswered
<1>10. CASE OfferFailed BY <1>10 DEF OfferFailed
<1>11. CASE AbandonTurn BY <1>11 DEF AbandonTurn
<1>12. CASE ResetNull BY <1>12 DEF ResetNull
<1>13. CASE Teardown BY <1>13 DEF Teardown, DestroyPeer
<1>14. CASE Drop BY <1>14 DEF Drop, DestroyPeer
<1>15. CASE GiveUp BY <1>15 DEF GiveUp
<1>16. CASE PumpNew BY <1>16 DEF PumpNew
<1>17. CASE PumpChecking BY <1>17 DEF PumpChecking
<1>18. CASE ChecksFail BY <1>18 DEF ChecksFail
<1>19. CASE StartHandshake BY <1>19 DEF StartHandshake
<1>20. CASE HandshakeFails BY <1>20 DEF HandshakeFails
<1>21. CASE HandshakeDone BY <1>21 DEF HandshakeDone
<1>22. CASE OnCompleted BY <1>22 DEF OnCompleted
<1>23. CASE AssignCompleted BY <1>23 DEF AssignCompleted
<1>24. CASE PumpQuiet BY <1>24 DEF PumpQuiet
<1>25. CASE PumpReply BY <1>25 DEF PumpReply
<1>26. CASE ReplyDeadline BY <1>26 DEF ReplyDeadline
<1>27. CASE PumpDead BY <1>27 DEF PumpDead
<1>28. CASE CapRead BY <1>28 DEF CapRead
<1>28a. CASE CapReadFails BY <1>28a DEF CapReadFails
<1>29. ASSUME NEW loud \in BOOLEAN, CapGuard(loud) PROVE PeerInv'
  BY <1>29 DEF CapGuard
<1>30. CASE CapExtend BY <1>30 DEF CapExtend
<1>31. ASSUME NEW fires \in BOOLEAN, CapDetect(fires) PROVE PeerInv'
  BY <1>31 DEF CapDetect
<1>32. CASE CapArmNew BY <1>32 DEF CapArmNew
<1>33. CASE CapArm BY <1>33 DEF CapArm
<1>34. CASE CapExpire BY <1>34 DEF CapExpire
<1>35. CASE CapEnd BY <1>35 DEF CapEnd
<1>36. CASE CapSkip BY <1>36 DEF CapSkip
<1>37. CASE CapEncode BY <1>37 DEF CapEncode
<1>38. CASE CapLock BY <1>38 DEF CapLock
<1>39. CASE CapSend BY <1>39 DEF CapSend
<1>40. CASE CapUnlock BY <1>40 DEF CapUnlock
<1>41. CASE Tick BY <1>41 DEF Tick
<1>42. CASE UNCHANGED vars BY <1>42 DEF vars
<1> QED
  BY <1>1, <1>2, <1>3, <1>4, <1>5, <1>6, <1>7, <1>8, <1>9, <1>10, <1>11, <1>12, <1>13,
      <1>14, <1>15, <1>16, <1>17, <1>18, <1>19, <1>20, <1>21, <1>22, <1>23, <1>24,
      <1>25, <1>26, <1>27, <1>28, <1>28a, <1>29, <1>30, <1>31, <1>32, <1>33, <1>34, <1>35,
      <1>36, <1>37, <1>38, <1>39, <1>40, <1>41, <1>42
    DEF Next, Main, Decide, Pump, Capture

(* The backlog stays one utterance.                                         *)
LEMMA UplinkStep ==
  ASSUME TypeOK, UplinkInv, [Next]_vars PROVE UplinkInv'
<1> USE DEF UplinkInv, FreshMeansEmpty, OneUtterance, NextFrame, shared, uplink,
      libpeer, main, capture
<1>1. CASE Decide
  BY <1>1 DEF Decide, LoopConnect, LoopTeardown, LoopReconnect, LoopGiveUp, LoopPump,
      LoopIdle, Iterate
<1>2. CASE FetchIce BY <1>2 DEF FetchIce
<1>3. CASE CreatePeer BY <1>3 DEF CreatePeer
<1>4. CASE OfferAnswered BY <1>4 DEF OfferAnswered
<1>5. CASE OfferFailed BY <1>5 DEF OfferFailed
<1>6. CASE AbandonTurn BY <1>6 DEF AbandonTurn
<1>7. CASE ResetNull BY <1>7 DEF ResetNull
<1>8. CASE Teardown BY <1>8 DEF Teardown, DestroyPeer
<1>9. CASE Drop BY <1>9 DEF Drop, DestroyPeer
<1>10. CASE GiveUp BY <1>10 DEF GiveUp
<1>11. CASE Pump
  BY <1>11 DEF Pump, PumpNew, PumpChecking, ChecksFail, StartHandshake, HandshakeFails,
      HandshakeDone, OnCompleted, AssignCompleted, PumpQuiet, PumpReply, ReplyDeadline,
      PumpDead
<1>12. CASE CapRead BY <1>12 DEF CapRead
<1>12a. CASE CapReadFails BY <1>12a DEF CapReadFails
<1>13. ASSUME NEW loud \in BOOLEAN, CapGuard(loud) PROVE UplinkInv'
  BY <1>13 DEF CapGuard
<1>14. CASE CapExtend BY <1>14 DEF CapExtend
<1>15. ASSUME NEW fires \in BOOLEAN, CapDetect(fires) PROVE UplinkInv'
  BY <1>15 DEF CapDetect
<1>16. CASE CapArmNew BY <1>16 DEF CapArmNew
<1>17. CASE CapArm BY <1>17 DEF CapArm
<1>18. CASE CapExpire BY <1>18 DEF CapExpire
<1>19. CASE CapEnd BY <1>19 DEF CapEnd
<1>20. CASE CapSkip BY <1>20 DEF CapSkip
<1>21. CASE CapEncode
  <2> DEFINE p == IF enc_fresh THEN "head" ELSE "cont"
  <2>1. ring' = RingPush(ring, p) /\ enc_fresh' = FALSE BY <1>21 DEF CapEncode
  <2>2. ring \in Seq(Packets) /\ p \in Packets BY DEF TypeOK, CountsOK, Packets
  <2>3. CASE enc_fresh
    <3>1. ring' = <<"head">> BY <2>1, <2>3, SessionAssumption DEF RingPush
    <3> QED BY <2>1, <3>1
  <2>4. CASE ~enc_fresh
    <3>1. p = "cont" BY <2>4
    <3>2. CASE Len(ring) < RingCap
      <4>1. ring' = Append(ring, "cont") BY <2>1, <3>1, <3>2 DEF RingPush
      <4> QED BY <2>1, <2>2, <4>1
    <3>3. CASE ~(Len(ring) < RingCap)
      <4>1. ring' = Append(Tail(ring), "cont") BY <2>1, <3>1, <3>3 DEF RingPush
      <4>2. ring # << >> BY <3>3, SessionAssumption
      <4> QED BY <2>1, <2>2, <4>1, <4>2
    <3> QED BY <3>2, <3>3
  <2> QED BY <2>3, <2>4
<1>22. CASE CapLock BY <1>22 DEF CapLock
<1>23. CASE CapSend
  <2>1. ring # << >> /\ ring' = Tail(ring) /\ enc_fresh' = enc_fresh BY <1>23 DEF CapSend
  <2>2. ring \in Seq(Packets) BY DEF TypeOK, CountsOK
  <2>3. ~enc_fresh BY <2>1
  <2> QED BY <2>1, <2>2, <2>3
<1>24. CASE CapUnlock BY <1>24 DEF CapUnlock
<1>25. CASE Tick BY <1>25 DEF Tick
<1>26. CASE UNCHANGED vars BY <1>26 DEF vars
<1> QED
  BY <1>1, <1>2, <1>3, <1>4, <1>5, <1>6, <1>7, <1>8, <1>9, <1>10, <1>11, <1>12, <1>12a, <1>13,
      <1>14, <1>15, <1>16, <1>17, <1>18, <1>19, <1>20, <1>21, <1>22, <1>23, <1>24,
      <1>25, <1>26
    DEF Next, Main, Decide, Pump, Capture

(* Every step of the tasks is a step of the lifecycle, or none.             *)
LEMMA LifecycleStep ==
  ASSUME TypeOK, PeerInv, [Next]_vars PROVE [Lifecycle!LifecycleNext]_(Lifecycle!lifecycle)
<1> USE DEF TypeOK, FlagsOK, PlacesOK, PeerInv, ConnectedTracksPeer, MainTracksPeer,
      MainSawTurn, Iterate, NextFrame, EndIteration, shared, uplink, libpeer, main,
      capture, Lifecycle!LifecycleNext, Lifecycle!Wake, Lifecycle!EndTurn,
      Lifecycle!Look, Lifecycle!Build, Lifecycle!Establish, Lifecycle!Disconnect,
      Lifecycle!Release, Lifecycle!Rebuild, Lifecycle!lifecycle
<1>1. CASE LoopConnect BY <1>1 DEF LoopConnect
<1>2. CASE LoopTeardown BY <1>2 DEF LoopTeardown
<1>3. CASE LoopReconnect BY <1>3 DEF LoopReconnect
<1>4. CASE LoopGiveUp BY <1>4 DEF LoopGiveUp
<1>5. CASE LoopPump BY <1>5 DEF LoopPump
<1>6. CASE LoopIdle BY <1>6 DEF LoopIdle
<1>7. CASE FetchIce BY <1>7 DEF FetchIce
<1>8. CASE CreatePeer BY <1>8 DEF CreatePeer
<1>9. CASE OfferAnswered BY <1>9 DEF OfferAnswered
<1>10. CASE OfferFailed BY <1>10 DEF OfferFailed
<1>11. CASE AbandonTurn BY <1>11 DEF AbandonTurn
<1>12. CASE ResetNull BY <1>12 DEF ResetNull
<1>13. CASE Teardown BY <1>13 DEF Teardown, DestroyPeer
<1>14. CASE Drop BY <1>14 DEF Drop, DestroyPeer
<1>15. CASE GiveUp BY <1>15 DEF GiveUp
<1>16. CASE PumpNew BY <1>16 DEF PumpNew
<1>17. CASE PumpChecking BY <1>17 DEF PumpChecking
<1>18. CASE ChecksFail BY <1>18 DEF ChecksFail
<1>19. CASE StartHandshake BY <1>19 DEF StartHandshake
<1>20. CASE HandshakeFails BY <1>20 DEF HandshakeFails
<1>21. CASE HandshakeDone BY <1>21 DEF HandshakeDone
<1>22. CASE OnCompleted BY <1>22 DEF OnCompleted
<1>23. CASE AssignCompleted BY <1>23 DEF AssignCompleted
<1>24. CASE PumpQuiet BY <1>24 DEF PumpQuiet
<1>25. CASE PumpReply BY <1>25 DEF PumpReply
<1>26. CASE ReplyDeadline BY <1>26 DEF ReplyDeadline
<1>27. CASE PumpDead BY <1>27 DEF PumpDead
<1>28. CASE CapRead BY <1>28 DEF CapRead
<1>28a. CASE CapReadFails BY <1>28a DEF CapReadFails
<1>29. ASSUME NEW loud \in BOOLEAN, CapGuard(loud) PROVE [Lifecycle!LifecycleNext]_(Lifecycle!lifecycle)
  BY <1>29 DEF CapGuard
<1>30. CASE CapExtend BY <1>30 DEF CapExtend
<1>31. ASSUME NEW fires \in BOOLEAN, CapDetect(fires) PROVE [Lifecycle!LifecycleNext]_(Lifecycle!lifecycle)
  BY <1>31 DEF CapDetect
<1>32. CASE CapArmNew BY <1>32 DEF CapArmNew
<1>33. CASE CapArm BY <1>33 DEF CapArm
<1>34. CASE CapExpire BY <1>34 DEF CapExpire
<1>35. CASE CapEnd BY <1>35 DEF CapEnd
<1>36. CASE CapSkip BY <1>36 DEF CapSkip
<1>37. CASE CapEncode BY <1>37 DEF CapEncode
<1>38. CASE CapLock BY <1>38 DEF CapLock
<1>39. CASE CapSend BY <1>39 DEF CapSend
<1>40. CASE CapUnlock BY <1>40 DEF CapUnlock
<1>41. CASE Tick BY <1>41 DEF Tick
<1>42. CASE UNCHANGED vars BY <1>42 DEF vars
<1> QED
  BY <1>1, <1>2, <1>3, <1>4, <1>5, <1>6, <1>7, <1>8, <1>9, <1>10, <1>11, <1>12, <1>13,
      <1>14, <1>15, <1>16, <1>17, <1>18, <1>19, <1>20, <1>21, <1>22, <1>23, <1>24,
      <1>25, <1>26, <1>27, <1>28, <1>28a, <1>29, <1>30, <1>31, <1>32, <1>33, <1>34, <1>35,
      <1>36, <1>37, <1>38, <1>39, <1>40, <1>41, <1>42
    DEF Next, Main, Decide, Pump, Capture

----------------------------------------------------------------------------
(* The theorems.                                                            *)

(* The invariant holds when Session::start creates the tasks ...                *)
LEMMA InitIInv == Init => IInv
<1> SUFFICES ASSUME Init PROVE IInv OBVIOUS
<1> USE SessionAssumption DEF Init
<1>1. TypeOK
  <2>1. FlagsOK BY DEF FlagsOK
  <2>2. TimersOK BY DEF TimersOK, Window, Greater, NoFrame
  <2>3. CountsOK BY DEF CountsOK, Greater
  <2>4. PlacesOK BY DEF PlacesOK, PeerStates, MainPcs, CapturePcs
  <2> QED BY <2>1, <2>2, <2>3, <2>4 DEF TypeOK
<1>2. PeerInv
  BY DEF PeerInv, NoSendOnDestroyedPeer, ConnectedTracksPeer, AnswerMatchesPeer,
    MainTracksPeer, MainSawTurn
<1>3. UplinkInv BY DEF UplinkInv, FreshMeansEmpty, OneUtterance
<1> QED BY <1>1, <1>2, <1>3 DEF IInv

(* ... and every step keeps it.                                                 *)
LEMMA NextIInv == IInv /\ [Next]_vars => IInv'
<1> SUFFICES ASSUME IInv, [Next]_vars PROVE IInv' OBVIOUS
<1>1. TypeOK' BY FlagsStep, TimersStep, CountsStep, PlacesStep DEF IInv, TypeOK
<1>2. PeerInv' BY PeerStep DEF IInv
<1>3. UplinkInv' BY UplinkStep DEF IInv
<1> QED BY <1>1, <1>2, <1>3 DEF IInv

(* The inductive invariant of the two tasks.                                *)
THEOREM Inductive == Spec => []IInv
BY InitIInv, NextIInv, PTL DEF Spec

(* Clocks, counters and the backlog stay within their bounds in every run of *)
(* mainLoopTask and captureTask.                                            *)
THEOREM TypeCorrect == Spec => []TypeOK
<1>1. IInv => TypeOK BY DEF IInv
<1> QED BY Inductive, <1>1, PTL

(* No peer_ is destroyed under a flush: the lock and the re-check of the     *)
(* capture task suffice (session.cpp:485-493, 697-713).                     *)
THEOREM SendSafety == Spec => []NoSendOnDestroyedPeer
<1>1. IInv => NoSendOnDestroyedPeer BY DEF IInv, PeerInv
<1> QED BY Inductive, <1>1, PTL

(* connected_ never disagrees with libpeer's state beyond the callback that  *)
(* sets it (session.cpp:355-374, peer_connection.c:21-25).                  *)
THEOREM ConnectedAgrees == Spec => []ConnectedTracksPeer
<1>1. IInv => ConnectedTracksPeer BY DEF IInv, PeerInv
<1> QED BY Inductive, <1>1, PTL

(* No peer is started with the SDP answer of another (peer.cpp:76-112).      *)
THEOREM AnswerOwned == Spec => []AnswerMatchesPeer
<1>1. IInv => AnswerMatchesPeer BY DEF IInv, PeerInv
<1> QED BY Inductive, <1>1, PTL

(* The backlog never mixes two utterances (session.cpp:556-580, 660-668).    *)
THEOREM BacklogOneUtterance == Spec => []OneUtterance
<1>1. IInv => OneUtterance BY DEF IInv, UplinkInv
<1> QED BY Inductive, <1>1, PTL

(* The two tasks implement the lifecycle of a turn: no connection without a  *)
(* peer, no peer for a turn main did not see, none taken away but for a turn *)
(* seen to be over or a rebuild (session.cpp:458-530).                      *)
THEOREM Refinement == Spec => RefinesLifecycle
<1>1. Init => Lifecycle!LifecycleInit BY DEF Init, Lifecycle!LifecycleInit
<1>2. IInv /\ [Next]_vars => [Lifecycle!LifecycleNext]_(Lifecycle!lifecycle)
  BY LifecycleStep DEF IInv
<1> QED BY Inductive, <1>1, <1>2, PTL DEF Spec, RefinesLifecycle, Lifecycle!LifecycleSpec

----------------------------------------------------------------------------
(* What the histories of a session show: the reconnect budget of a turn, and *)
(* the uplink as the backend decodes it.                                      *)

Dropping == IF mpc = "drop" THEN 1 ELSE 0

(* main's counter covers the reconnects of the turn as long as main believes in *)
(* a turn; a turn that main has not seen yet has used none.  The budget can be  *)
(* larger than what the turn used (main missed the edge), never smaller.        *)
BudgetInv ==
  /\ used \in 0 .. MaxReconnects
  /\ prev_want => used + Dropping <= reconnects
  /\ mpc = "drop" => prev_want /\ reconnects >= 1
  /\ active /\ ~prev_want => used = 0

(* A step of the two tasks and the history keep the budget covered.             *)
LEMMA BudgetStep ==
  ASSUME FlagsOK, CountsOK, BudgetInv, History, Next PROVE BudgetInv'
<1> USE SessionAssumption DEF FlagsOK, CountsOK, BudgetInv, Dropping, History,
      TurnArmed, Reconnected, Lesser, Budget, Iterate, NextFrame, EndIteration, shared,
      uplink, libpeer, main, capture
<1>1. CASE LoopConnect BY <1>1 DEF LoopConnect
<1>2. CASE LoopTeardown BY <1>2 DEF LoopTeardown
<1>3. CASE LoopReconnect BY <1>3 DEF LoopReconnect
<1>4. CASE LoopGiveUp BY <1>4 DEF LoopGiveUp
<1>5. CASE LoopPump BY <1>5 DEF LoopPump
<1>6. CASE LoopIdle BY <1>6 DEF LoopIdle
<1>7. CASE FetchIce BY <1>7 DEF FetchIce
<1>8. CASE CreatePeer BY <1>8 DEF CreatePeer
<1>9. CASE OfferAnswered BY <1>9 DEF OfferAnswered
<1>10. CASE OfferFailed BY <1>10 DEF OfferFailed
<1>11. CASE AbandonTurn BY <1>11 DEF AbandonTurn
<1>12. CASE ResetNull BY <1>12 DEF ResetNull
<1>13. CASE Teardown BY <1>13 DEF Teardown, DestroyPeer
<1>14. CASE Drop BY <1>14 DEF Drop, DestroyPeer
<1>15. CASE GiveUp BY <1>15 DEF GiveUp
<1>16. CASE PumpNew BY <1>16 DEF PumpNew
<1>17. CASE PumpChecking BY <1>17 DEF PumpChecking
<1>18. CASE ChecksFail BY <1>18 DEF ChecksFail
<1>19. CASE StartHandshake BY <1>19 DEF StartHandshake
<1>20. CASE HandshakeFails BY <1>20 DEF HandshakeFails
<1>21. CASE HandshakeDone BY <1>21 DEF HandshakeDone
<1>22. CASE OnCompleted BY <1>22 DEF OnCompleted
<1>23. CASE AssignCompleted BY <1>23 DEF AssignCompleted
<1>24. CASE PumpQuiet BY <1>24 DEF PumpQuiet
<1>25. CASE PumpReply BY <1>25 DEF PumpReply
<1>26. CASE ReplyDeadline BY <1>26 DEF ReplyDeadline
<1>27. CASE PumpDead BY <1>27 DEF PumpDead
<1>28. CASE CapRead BY <1>28 DEF CapRead
<1>28a. CASE CapReadFails BY <1>28a DEF CapReadFails
<1>29. ASSUME NEW loud \in BOOLEAN, CapGuard(loud) PROVE BudgetInv'
  BY <1>29 DEF CapGuard
<1>30. CASE CapExtend BY <1>30 DEF CapExtend
<1>31. ASSUME NEW fires \in BOOLEAN, CapDetect(fires) PROVE BudgetInv'
  BY <1>31 DEF CapDetect
<1>32. CASE CapArmNew BY <1>32 DEF CapArmNew
<1>33. CASE CapArm BY <1>33 DEF CapArm
<1>34. CASE CapExpire BY <1>34 DEF CapExpire
<1>35. CASE CapEnd BY <1>35 DEF CapEnd
<1>36. CASE CapSkip BY <1>36 DEF CapSkip
<1>37. CASE CapEncode BY <1>37 DEF CapEncode
<1>38. CASE CapLock BY <1>38 DEF CapLock
<1>39. CASE CapSend BY <1>39 DEF CapSend
<1>40. CASE CapUnlock BY <1>40 DEF CapUnlock
<1>41. CASE Tick BY <1>41 DEF Tick
<1> QED
  BY <1>1, <1>2, <1>3, <1>4, <1>5, <1>6, <1>7, <1>8, <1>9, <1>10, <1>11, <1>12, <1>13,
      <1>14, <1>15, <1>16, <1>17, <1>18, <1>19, <1>20, <1>21, <1>22, <1>23, <1>24,
      <1>25, <1>26, <1>27, <1>28, <1>28a, <1>29, <1>30, <1>31, <1>32, <1>33, <1>34, <1>35,
      <1>36, <1>37, <1>38, <1>39, <1>40, <1>41
    DEF Next, Main, Decide, Pump, Capture

(* The history variables change nothing of what Session does.                   *)
LEMMA HistoryRefines == HSpec => Spec
<1>1. HInit => Init BY DEF HInit
<1>2. [HNext]_hvars => [Next]_vars BY DEF HNext, hvars
<1> QED BY <1>1, <1>2, PTL DEF HSpec, Spec

(* A turn is given at most kMaxReconnectsPerTurn rebuilds, whatever drops, wakes *)
(* and missed edges came before it (session.cpp:35-37, 468, 505-517).           *)
THEOREM ReconnectBudget == HSpec => []ReconnectsBounded
<1>1. HInit => BudgetInv
  BY SessionAssumption DEF HInit, Init, BudgetInv, Dropping
<1>2. IInv /\ BudgetInv /\ [HNext]_hvars => BudgetInv'
  <2> SUFFICES ASSUME IInv, BudgetInv, [HNext]_hvars PROVE BudgetInv' OBVIOUS
  <2>1. CASE HNext
    BY <2>1, BudgetStep DEF HNext, IInv, TypeOK
  <2>2. CASE UNCHANGED hvars
    BY <2>2 DEF hvars, vars, main, shared, BudgetInv, Dropping
  <2> QED BY <2>1, <2>2
<1>3. BudgetInv => ReconnectsBounded
  BY SessionAssumption DEF BudgetInv, ReconnectsBounded
<1> QED BY HistoryRefines, Inductive, <1>1, <1>2, <1>3, PTL DEF HSpec

----------------------------------------------------------------------------
(* The uplink stream                                                        *)

(* As long as nothing has broken the utterance, the backlog continues what the *)
(* connection got: it begins with the packet after the encoder reset if the    *)
(* connection got nothing, and holds only later packets if it did.            *)
StreamInv ==
  gap = {} =>
    /\ stream \in {"empty", "whole"}
    /\ stream = "empty" => IF ring = << >> THEN enc_fresh ELSE ring[1] = "head"
    /\ stream = "whole" => ~enc_fresh /\ \A i \in 1 .. Len(ring) : ring[i] = "cont"

(* Steps that leave the backlog and the encoder alone keep StreamInv.           *)
LEMMA QuietStep ==
  ASSUME StreamInv, StreamHistory, UNCHANGED uplink, ~(cpc = "armnew" /\ cpc' = "arm")
  PROVE  StreamInv'
<1>1. ~Delivered /\ ~Refused BY DEF Delivered, Refused, uplink
<1>2. CASE Destroyed /\ stream # "empty"
  <2>1. gap' # {} BY <1>1, <1>2 DEF StreamHistory
  <2> QED BY <2>1 DEF StreamInv
<1>3. CASE ~(Destroyed /\ stream # "empty")
  <2>1. stream' = stream BY <1>1, <1>3 DEF StreamHistory
  <2>2. gap' = {} => gap = {} BY <1>1 DEF StreamHistory
  <2> QED BY <2>1, <2>2 DEF StreamInv, uplink
<1> QED BY <1>2, <1>3

(* What a step does to the backlog and the encoder: only three steps of the     *)
(* capture task touch them.                                                     *)
LEMMA OnlyCapture ==
  ASSUME [Next]_vars, ~CapArmNew, ~CapEncode, ~CapSend
  PROVE  UNCHANGED uplink /\ ~(cpc = "armnew" /\ cpc' = "arm")
<1> DEFINE Quiet == UNCHANGED uplink /\ ~(cpc = "armnew" /\ cpc' = "arm")
<1> USE DEF Iterate, NextFrame, EndIteration, capture
<1>1. CASE Decide
  BY <1>1 DEF Decide, LoopConnect, LoopTeardown, LoopReconnect, LoopGiveUp, LoopPump, LoopIdle
<1>2. CASE Pump
  BY <1>2 DEF Pump, PumpNew, PumpChecking, ChecksFail, StartHandshake, HandshakeFails,
      HandshakeDone, OnCompleted, AssignCompleted, PumpQuiet, PumpReply, ReplyDeadline,
      PumpDead, shared
<1>3. CASE FetchIce \/ CreatePeer \/ OfferAnswered \/ OfferFailed \/ AbandonTurn \/ GiveUp
  BY <1>3 DEF FetchIce, CreatePeer, OfferAnswered, OfferFailed, AbandonTurn, GiveUp
<1>4. CASE ResetNull \/ Teardown \/ Drop
  BY <1>4 DEF ResetNull, Teardown, Drop, DestroyPeer
<1>5. CASE CapRead \/ CapReadFails \/ CapExtend \/ CapArm \/ CapExpire \/ CapEnd \/ CapSkip
  BY <1>5 DEF CapRead, CapReadFails, CapExtend, CapArm, CapExpire, CapEnd, CapSkip
<1>6. CASE CapLock \/ CapUnlock
  BY <1>6 DEF CapLock, CapUnlock
<1>7. ASSUME NEW loud \in BOOLEAN, CapGuard(loud) PROVE Quiet
  BY <1>7 DEF CapGuard
<1>8. ASSUME NEW fires \in BOOLEAN, CapDetect(fires) PROVE Quiet
  BY <1>8 DEF CapDetect
<1>9. CASE Tick BY <1>9 DEF Tick
<1>10. CASE UNCHANGED vars BY <1>10 DEF vars
<1> QED BY <1>1, <1>2, <1>3, <1>4, <1>5, <1>6, <1>7, <1>8, <1>9, <1>10
      DEF Next, Main, Capture

(* A new utterance: a stream that has not begun gets a clean one, a stream that *)
(* has is on record.                                                            *)
LEMMA ArmNewStep ==
  ASSUME StreamInv, StreamHistory, CapArmNew PROVE StreamInv'
<1>1. cpc = "armnew" /\ cpc' = "arm" /\ enc_fresh' = TRUE /\ ring' = << >> /\ peer' = peer
  BY DEF CapArmNew, libpeer
<1>2. stream' = stream BY <1>1 DEF StreamHistory, Delivered, Destroyed
<1>3. gap' = {} => stream = "empty" BY <1>1 DEF StreamHistory
<1> QED BY <1>1, <1>2, <1>3 DEF StreamInv

(* A packet is queued behind what is there, or the overflow is on record.       *)
LEMMA EncodeStep ==
  ASSUME TypeOK, UplinkInv, StreamInv, StreamHistory, CapEncode PROVE StreamInv'
<1> DEFINE p == IF enc_fresh THEN "head" ELSE "cont"
<1>1. /\ cpc = "encode" /\ active /\ ring' = RingPush(ring, p) /\ enc_fresh' = FALSE
      /\ cpc' # "encode" /\ peer' = peer
  BY DEF CapEncode, NextFrame, libpeer
<1>2. ring \in Seq(Packets) /\ p \in Packets /\ Len(ring) \in Nat /\ Len(ring) <= RingCap
  BY DEF TypeOK, CountsOK, Packets
<1>3. stream' = stream BY <1>1 DEF StreamHistory, Delivered, Destroyed
<1>4. gap' = {} => gap = {} /\ Len(ring) # RingCap
  BY <1>1 DEF StreamHistory, Overflow
<1> SUFFICES ASSUME gap' = {} PROVE StreamInv' BY DEF StreamInv
<1>5. ring' = Append(ring, p)
  BY <1>1, <1>2, <1>4, SessionAssumption DEF RingPush
<1>6. CASE stream = "empty"
  <2>1. IF ring = << >> THEN p = "head" ELSE ring[1] = "head"
    BY <1>4, <1>6 DEF StreamInv
  <2>2. ring' # << >> /\ ring'[1] = "head" BY <1>2, <1>5, <2>1
  <2> QED BY <1>3, <1>6, <2>2 DEF StreamInv
<1>7. CASE stream = "whole"
  <2>1. p = "cont" /\ \A i \in 1 .. Len(ring) : ring[i] = "cont"
    BY <1>4, <1>7 DEF StreamInv
  <2>2. \A i \in 1 .. Len(ring') : ring'[i] = "cont" BY <1>2, <1>5, <2>1
  <2> QED BY <1>1, <1>3, <1>7, <2>2 DEF StreamInv
<1>8. stream \in {"empty", "whole"} BY <1>4 DEF StreamInv
<1> QED BY <1>6, <1>7, <1>8

(* The oldest packet reaches the decoder, or the refusal is on record.          *)
LEMMA SendStep ==
  ASSUME TypeOK, UplinkInv, StreamInv, StreamHistory, CapSend PROVE StreamInv'
<1>1. /\ cpc = "send" /\ cpc' = "send" /\ ring # << >> /\ ring' = Tail(ring)
      /\ enc_fresh' = enc_fresh /\ peer' = peer
  BY DEF CapSend, libpeer
<1>2. ring \in Seq(Packets) BY DEF TypeOK, CountsOK
<1>3. ring' # ring BY <1>1, <1>2
<1>4. ~enc_fresh BY <1>1 DEF UplinkInv, FreshMeansEmpty
<1>5. \A i \in 2 .. Len(ring) : ring[i] = "cont"
  BY <1>2 DEF UplinkInv, OneUtterance, Packets
<1>6. \A i \in 1 .. Len(ring') : ring'[i] = "cont" BY <1>1, <1>2, <1>5
<1>7. gap' = {} => gap = {} /\ peer = "completed"
  BY <1>1, <1>3 DEF StreamHistory, Refused, Overflow, Destroyed
<1> SUFFICES ASSUME gap' = {} PROVE StreamInv' BY DEF StreamInv
<1>8. stream' = Continues(Head(ring))
  BY <1>1, <1>3, <1>7 DEF StreamHistory, Delivered, Destroyed
<1>9. Head(ring) = ring[1] BY <1>1, <1>2
<1>10. stream' = "whole"
  BY <1>1, <1>2, <1>7, <1>8, <1>9 DEF StreamInv, Continues
<1> QED BY <1>1, <1>4, <1>6, <1>10 DEF StreamInv

(* The history variables change nothing of what Session does.                   *)
LEMMA StreamRefines == SSpec => Spec
<1>1. SInit => Init BY DEF SInit
<1>2. [SNext]_svars => [Next]_vars BY DEF SNext, svars
<1> QED BY <1>1, <1>2, PTL DEF SSpec, Spec

(* A connection whose decoder is out of step with the encoder had an overflow,  *)
(* a refused packet, a handover or a re-armed turn: there is no other way       *)
(* (session.cpp:556-580, 660-668, 689-715, peer_connection.c:205-211).          *)
THEOREM StreamBreaks == SSpec => []StreamBreaksOnlyBy
<1>1. SInit => StreamInv
  BY DEF SInit, Init, StreamInv
<1>2. IInv /\ StreamInv /\ [SNext]_svars => StreamInv'
  <2> SUFFICES ASSUME IInv, StreamInv, [SNext]_svars PROVE StreamInv' OBVIOUS
  <2>1. CASE SNext
    <3>1. [Next]_vars /\ StreamHistory BY <2>1 DEF SNext
    <3>2. CASE CapArmNew BY <3>1, <3>2, ArmNewStep
    <3>3. CASE CapEncode BY <3>1, <3>3, EncodeStep DEF IInv
    <3>4. CASE CapSend BY <3>1, <3>4, SendStep DEF IInv
    <3>5. CASE ~CapArmNew /\ ~CapEncode /\ ~CapSend
      BY <3>1, <3>5, OnlyCapture, QuietStep
    <3> QED BY <3>2, <3>3, <3>4, <3>5
  <2>2. CASE UNCHANGED svars
    BY <2>2 DEF svars, vars, uplink, StreamInv
  <2> QED BY <2>1, <2>2
<1>3. StreamInv => StreamBreaksOnlyBy
  BY DEF StreamInv, StreamBreaksOnlyBy
<1> QED BY StreamRefines, Inductive, <1>1, <1>2, <1>3, PTL DEF SSpec
=============================================================================
