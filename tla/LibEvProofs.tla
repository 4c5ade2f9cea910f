---------------------------- MODULE LibEvProofs ----------------------------
(***************************************************************************)
(* That the timer of a connection does what module LibEv asks of it, for   *)
(* every interval that may be negotiated, every delay of the loop and      *)
(* without a bound on the time (MaxTime is any number).                    *)
(***************************************************************************)
EXTENDS LibEv, TLAPS

-----------------------------------------------------------------------------
(* The inductive invariant.  Until the handshake is over the timer runs;    *)
(* once heartbeats are agreed it runs for as long as the connection does,   *)
(* it is due no later than either of its two times, and these follow from   *)
(* when the server was last heard and when we last spoke.  A heartbeat that *)
(* waits for open-ok has moved the next one no further than an interval     *)
(* from now, which is when it may leave at the earliest.                    *)
TimerRuns == wrapper # None /\ wrapper.due # None

Kept ==
    /\ wrapper \in Wrappers \union {None}
    /\ conn \in {"resolving", "connecting", "tuned", "ready", "closed"}
    /\ wrapper # None => (wrapper.due # None <=> timed(wrapper))
    /\ conn \in {"resolving", "connecting", "tuned"} => TimerRuns
    /\ conn = "ready" => wrapper # None
    /\ TimerRuns => now <= wrapper.due + Lag
    /\ wrapper # None /\ wrapper.timeout # 0 => conn \in {"tuned", "ready"}

Beats ==
    conn \in {"tuned", "ready"} =>
        /\ agreed \in Nat /\ heard \in Nat /\ beat \in Nat /\ heard <= now
        /\ wrapper.timeout = agreed
        /\ conn = "ready" => ~queued
        /\ agreed # 0 =>
             /\ TimerRuns /\ wrapper.due <= wrapper.next /\ wrapper.due <= wrapper.expire
             /\ wrapper.expire = heard + 3 * agreed
             /\ queued => wrapper.next <= now + 2 * agreed
             /\ ~queued /\ ~closing => wrapper.next <= beat + 2 * agreed

Ended ==
    ended.why = "silence" => conn = "closed" /\ ended.silence >= 3 * agreed

Inv ==
    /\ now \in Nat \ {0} /\ refs \in Int
    /\ closing \in BOOLEAN /\ queued \in BOOLEAN
    /\ conn \in {"resolving", "connecting"} => ~queued
    /\ Kept /\ Beats /\ Ended /\ RefsBalanced

-----------------------------------------------------------------------------
(* Half of an interval, rounded up to a second, is no longer than it.       *)
LEMMA HalfIsLess ==
    ASSUME NEW t \in Nat, t # 0
    PROVE  /\ 2 * Max(t \div 2, 1) \in Nat \ {0}
           /\ 2 * Max(t \div 2, 1) <= 2 * t
  BY DEF Max

(* A time in the future, for the lesser of two.                             *)
LEMMA MinIsLeast ==
    ASSUME NEW a \in Nat, NEW b \in Nat
    PROVE  Min(a, b) \in Nat /\ Min(a, b) <= a /\ Min(a, b) <= b /\ (Min(a, b) = a \/ Min(a, b) = b)
  BY DEF Min

(* The wrappers and the references that belong to them.                     *)
Balanced(l) ==
    /\ l.wrapper \in Wrappers \union {None} /\ l.refs \in Int
    /\ l.wrapper # None => (l.wrapper.due # None <=> timed(l.wrapper))
    /\ l.refs = (IF l.wrapper # None /\ l.wrapper.due # None THEN -1 ELSE 0)
Fresh(w) ==
    /\ w \in Wrappers /\ w # None
    /\ w.due = now + Connect /\ w.timeout = 0

(* A new wrapper has taken its reference.                                   *)
LEMMA LookupBalances ==
    ASSUME NEW l, Balanced(l), now \in Nat \ {0}
    PROVE  /\ Balanced(lookup(l)) /\ lookup(l).wrapper # None
           /\ l.wrapper # None => lookup(l) = l
           /\ l.wrapper = None => Fresh(lookup(l).wrapper)
  <1>1. CASE l.wrapper # None
    BY <1>1 DEF lookup
  <1>2. CASE l.wrapper = None
    <2> DEFINE w == [next |-> 0, expire |-> now + Connect, timeout |-> 0, due |-> now + Connect]
    <2>1. w \in Wrappers /\ w.due = now + Connect /\ w.timeout = 0 /\ w.expire > 0 /\ w.next = 0
      BY LibEvAssumption DEF Wrappers
    <2>2. w # None /\ w.due # None
      BY <2>1, LibEvAssumption DEF Wrappers
    <2>3. lookup(l).wrapper = w /\ lookup(l).refs = l.refs - 1
      BY <1>2 DEF lookup
    <2>4. timed(w) 
      BY <2>1 DEF timed
    <2> HIDE DEF w
    <2>5. l.refs = 0
      BY <1>2 DEF Balanced
    <2> QED
      BY <1>2, <2>1, <2>2, <2>3, <2>4, <2>5 DEF Balanced, Fresh
  <1> QED
    BY <1>1, <1>2

(* A wrapper that goes gives its reference back if its timer was running.   *)
LEMMA DetachBalances ==
    ASSUME NEW l, Balanced(l)
    PROVE  Balanced(onDetached(l)) /\ onDetached(l).wrapper = None
  <1>1. CASE l.wrapper = None
    BY <1>1 DEF onDetached
  <1>2. CASE l.wrapper # None
    <2>1. onDetached(l).wrapper = None /\ onDetached(l).refs = l.refs + restored(l.wrapper)
      BY <1>2 DEF onDetached
    <2>2. l.refs + restored(l.wrapper) = 0
      BY <1>2 DEF Balanced, restored
    <2> QED
      BY <2>1, <2>2 DEF Balanced
  <1> QED
    BY <1>1, <1>2

(* close(true), on each of its paths.                                       *)
LEMMA CloseBalances ==
    ASSUME NEW l, NEW socket, Balanced(l), now \in Nat \ {0}
    PROVE  /\ Balanced(closeImmediately(l, socket))
           /\ \/ closeImmediately(l, socket).wrapper = None
              \/ Fresh(closeImmediately(l, socket).wrapper)
  <1>1. Balanced(onDetached(l)) /\ onDetached(l).wrapper = None
    BY DetachBalances
  <1>2. Balanced(lookup(onDetached(l))) /\ Fresh(lookup(onDetached(l)).wrapper)
    BY <1>1, LookupBalances
  <1>3. Balanced(onDetached(lookup(onDetached(l)))) /\ onDetached(lookup(onDetached(l))).wrapper = None
    BY <1>2, DetachBalances
  <1> QED
    BY <1>1, <1>2, <1>3 DEF closeImmediately

-----------------------------------------------------------------------------
(* What the steps that end the connection have in common: the loop is       *)
(* balanced, and a wrapper that is left is a new one.                       *)
LEMMA ClosingKeeps ==
    ASSUME Inv, NEW l, Balanced(l), l.wrapper = None \/ Fresh(l.wrapper),
           Becomes(l), conn' = "closed", UNCHANGED <<now, closing, queued>>,
           Ended'
    PROVE  Inv'
  <1>1. now' \in Nat \ {0} /\ refs' \in Int /\ RefsBalanced'
    BY DEF Inv, Balanced, Becomes, RefsBalanced
  <1>2. TimerRuns' => now' <= wrapper'.due + Lag
    BY LibEvAssumption DEF Inv, Becomes, Fresh, TimerRuns
  <1>3. wrapper' # None => wrapper'.timeout = 0
    BY DEF Becomes, Fresh
  <1>4. Kept'
    BY <1>2, <1>3 DEF Kept, Becomes, Balanced, timed
  <1>5. Beats'
    BY DEF Beats
  <1>6. closing' \in BOOLEAN /\ queued' \in BOOLEAN
    BY DEF Inv
  <1> QED
    BY <1>1, <1>4, <1>5, <1>6 DEF Inv

(* In a state of the invariant the loop is balanced, and still is when a    *)
(* timer that has fired is stopped.                                         *)
LEMMA LoopBalanced ==
    ASSUME Inv
    PROVE  /\ Balanced(Loop)
           /\ Loop.wrapper = wrapper /\ Loop.refs = refs
  BY DEF Inv, Kept, RefsBalanced, Balanced, Loop

LEMMA ResetBalanced ==
    ASSUME Inv, Fired
    PROVE  /\ Balanced(Reset) /\ Reset.wrapper \in Wrappers
           /\ Reset.wrapper.due = None /\ Reset.wrapper.timeout = 0 /\ Reset.refs = 0
  <1>1. wrapper \in Wrappers /\ wrapper # None /\ wrapper.due # None /\ refs = -1
    BY DEF Inv, Kept, Fired, RefsBalanced
  <1> DEFINE w == [next |-> 0, expire |-> 0, timeout |-> 0, due |-> None]
  <1>2. Reset.wrapper = w /\ Reset.refs = refs + 1
    BY DEF Reset
  <1>3. w \in Wrappers /\ w.due = None /\ w.timeout = 0 /\ ~timed(w)
    BY DEF Wrappers, timed
  <1> HIDE DEF w
  <1> QED
    BY <1>1, <1>2, <1>3 DEF Balanced

-----------------------------------------------------------------------------
(* One lemma per action that does more than let time pass.                  *)

(* Facts that the actions on a living connection share.                     *)
LEMMA Living ==
    ASSUME Inv, conn # "closed"
    PROVE  /\ wrapper \in Wrappers /\ wrapper # None /\ lookup(Loop) = Loop
           /\ ended.why # "silence"
           /\ wrapper.next \in Nat /\ wrapper.expire \in Nat /\ wrapper.timeout \in Nat
           /\ wrapper.due \in Nat \union {None}
  <1>1. wrapper \in Wrappers /\ wrapper # None /\ ended.why # "silence"
    BY DEF Inv, Kept, TimerRuns, Ended
  <1>2. lookup(Loop) = Loop
    BY <1>1 DEF lookup, Loop
  <1> QED
    BY <1>1, <1>2 DEF Wrappers

LEMMA ConnectedKeeps == Inv /\ connected => Inv'
  <1> SUFFICES ASSUME Inv, connected PROVE Inv'
    OBVIOUS
  <1>1. wrapper' = wrapper /\ refs' = refs /\ conn = "resolving" /\ conn' = "connecting"
        /\ UNCHANGED <<now, agreed, heard, closing, queued, beat, ended>>
    BY Living, LoopBalanced DEF connected, Becomes
  <1> QED
    BY <1>1, Living DEF Inv, Kept, Beats, Ended, RefsBalanced, TimerRuns, timed

LEMMA UnresolvedKeeps == Inv /\ unresolved => Inv'
  <1> SUFFICES ASSUME Inv, unresolved PROVE Inv'
    OBVIOUS
  <1> DEFINE l == lookup(onDetached(Loop))
  <1>1. Balanced(l) /\ Fresh(l.wrapper)
    BY LoopBalanced, DetachBalances, LookupBalances DEF Inv
  <1>2. Becomes(l) /\ conn' = "closed" /\ UNCHANGED <<now, closing, queued>> /\ Ended'
    BY Living DEF unresolved, Ended
  <1> HIDE DEF l
  <1> QED
    BY <1>1, <1>2, ClosingKeeps

LEMMA LostKeeps == Inv /\ lost => Inv'
  <1> SUFFICES ASSUME Inv, lost PROVE Inv'
    OBVIOUS
  <1> DEFINE l == onDetached(lookup(Loop))
  <1>1. Balanced(l) /\ l.wrapper = None
    BY LoopBalanced, DetachBalances, LookupBalances DEF Inv
  <1>2. Becomes(l) /\ conn' = "closed" /\ UNCHANGED <<now, closing, queued>> /\ Ended'
    BY Living DEF lost, Ended
  <1> HIDE DEF l
  <1> QED
    BY <1>1, <1>2, ClosingKeeps

LEMMA ClosesKeeps == Inv /\ closes => Inv'
  <1> SUFFICES ASSUME Inv, closes PROVE Inv'
    OBVIOUS
  <1>0. PICK socket \in HasSocket : Becomes(closeImmediately(Loop, socket))
    BY DEF closes
  <1> DEFINE l == closeImmediately(Loop, socket)
  <1>1. Balanced(l) /\ (l.wrapper = None \/ Fresh(l.wrapper))
    BY LoopBalanced, CloseBalances DEF Inv
  <1>2. Becomes(l) /\ conn' = "closed" /\ UNCHANGED <<now, closing, queued>> /\ Ended'
    BY <1>0, Living DEF closes, Ended
  <1> HIDE DEF l
  <1> QED
    BY <1>1, <1>2, ClosingKeeps

(* The two timers are set: what start() makes of a wrapper whose timer runs.*)
LEMMA NegotiateKeeps == Inv /\ negotiate => Inv'
  <1> SUFFICES ASSUME Inv, negotiate PROVE Inv'
    OBVIOUS
  <1>0. conn = "connecting" /\ conn' = "tuned" /\ heard' = now /\ beat' = now
        /\ UNCHANGED <<now, closing, queued, ended>>
    BY DEF negotiate
  <1>1. PICK timeout \in Timeouts :
            /\ Becomes([lookup(Loop) EXCEPT !.wrapper = start(active(@), timeout)])
            /\ agreed' = timeout
    BY DEF negotiate
  <1>2. wrapper.timeout = 0 /\ TimerRuns /\ refs = -1
    BY <1>0, Living DEF Inv, Kept, RefsBalanced, TimerRuns
  <1>3. wrapper' = start(wrapper, timeout) /\ refs' = refs
    BY <1>0, <1>1, <1>2, Living DEF Becomes, Loop, active
  <1>4. timeout \in Nat /\ now \in Nat \ {0}
    BY LibEvAssumption DEF Inv
  <1>5. CASE timeout = 0
    <2>1. wrapper' = [wrapper EXCEPT !.timeout = 0]
      BY <1>3, <1>5 DEF start
    <2>2. wrapper' = wrapper
      BY <2>1, <1>0, <1>2, Living DEF Wrappers
    <2> QED
      BY <1>0, <1>1, <1>2, <1>3, <1>4, <1>5, <2>2, Living
      DEF Inv, Kept, Beats, Ended, RefsBalanced, TimerRuns, timed
  <1>6. CASE timeout # 0
    <2> DEFINE next == now + 2 * Max(timeout \div 2, 1)
               expire == now + 3 * timeout
    <2>1. wrapper' = [next |-> next, expire |-> expire, timeout |-> timeout, due |-> Min(next, expire)]
      BY <1>3, <1>6 DEF start
    <2>2. next \in Nat /\ next <= now + 2 * timeout /\ expire \in Nat /\ next > 0 /\ next >= now /\ expire >= now
      BY <1>4, <1>6, HalfIsLess
    <2>2a. expire = now + 3 * timeout
      OBVIOUS
    <2> HIDE DEF next, expire
    <2>3. Min(next, expire) \in Nat /\ Min(next, expire) <= next /\ Min(next, expire) <= expire
          /\ now <= Min(next, expire)
      BY <2>2, MinIsLeast, <1>4
    <2>4. /\ wrapper' \in Wrappers /\ wrapper'.next = next /\ wrapper'.expire = expire
          /\ wrapper'.timeout = timeout /\ wrapper'.due = Min(next, expire)
      BY <2>1, <2>2, <2>3, <1>4 DEF Wrappers
    <2>5. TimerRuns' /\ wrapper' # None /\ wrapper'.due # None
      BY <2>3, <2>4, LibEvAssumption DEF TimerRuns
    <2>6. timed(wrapper')
      BY <2>2, <2>4 DEF timed
    <2>7. Kept'
      BY <1>0, <1>4, <2>3, <2>4, <2>5, <2>6, LibEvAssumption DEF Kept, TimerRuns
    <2>8. Beats'
      BY <1>0, <1>1, <1>4, <2>2, <2>2a, <2>3, <2>4, <2>5 DEF Beats
    <2> QED
      BY <1>0, <1>2, <1>3, <1>4, <2>5, <2>7, <2>8, Living DEF Inv, Ended, RefsBalanced
  <1> QED
    BY <1>5, <1>6

(* Reading moves the end of our patience, and leaves the timer alone; what  *)
(* open-ok lets out of the queue leaves now.                                *)
LEMMA ActiveKeeps ==
    ASSUME Inv, conn \in {"connecting", "tuned", "ready"}, wrapper' = active(wrapper), heard' = now,
           \/ conn' = conn /\ UNCHANGED <<queued, beat>>
           \/ /\ conn = "tuned" /\ conn' = "ready" /\ queued' = FALSE
              /\ beat' = IF queued THEN now ELSE beat,
           UNCHANGED <<now, refs, agreed, closing, ended>>
    PROVE  Inv'
  <1>1. /\ wrapper \in Wrappers /\ wrapper # None /\ wrapper.next \in Nat /\ wrapper.expire \in Nat
        /\ wrapper.timeout \in Nat /\ wrapper.due \in Nat \union {None} /\ ended.why # "silence"
        /\ now \in Nat \ {0}
    BY Living DEF Inv
  <1>2. /\ closing' \in BOOLEAN /\ queued' \in BOOLEAN
        /\ conn' \in {"resolving", "connecting"} => ~queued'
        /\ conn' = "ready" => ~queued'
        /\ conn \in {"tuned", "ready"} => agreed \in Nat /\ beat \in Nat /\ beat' \in Nat
        /\ conn' \in {"tuned", "ready"} <=> conn \in {"tuned", "ready"}
    <2>1. /\ closing \in BOOLEAN /\ queued \in BOOLEAN /\ now \in Nat
          /\ conn \in {"resolving", "connecting"} => ~queued
          /\ conn = "ready" => ~queued
          /\ conn \in {"tuned", "ready"} => agreed \in Nat /\ beat \in Nat
      BY DEF Inv, Beats
    <2>2. CASE conn' = conn /\ UNCHANGED <<queued, beat>>
      BY <2>1, <2>2
    <2>3. CASE /\ conn = "tuned" /\ conn' = "ready" /\ queued' = FALSE
               /\ beat' = IF queued THEN now ELSE beat
      <3>1. beat' \in Nat
        BY <2>1, <2>3
      <3>2. queued' \in BOOLEAN /\ ~queued'
        BY <2>3
      <3> QED
        BY <2>1, <2>3, <3>1, <3>2
    <2> QED
      BY <2>2, <2>3
  <1>3. CASE wrapper.timeout = 0
    <2>1. wrapper' = wrapper
      BY <1>3 DEF active
    <2>2. conn \in {"tuned", "ready"} => agreed = 0
      BY <1>3 DEF Inv, Beats
    <2>3. Kept'
      BY <1>1, <2>1 DEF Inv, Kept, TimerRuns, timed
    <2>4. Beats'
      BY <1>1, <1>2, <1>3, <2>1, <2>2 DEF Beats
    <2> QED
      BY <1>1, <1>2, <2>1, <2>3, <2>4 DEF Inv, Ended, RefsBalanced
  <1>4. CASE wrapper.timeout # 0
    <2>1. wrapper' = [wrapper EXCEPT !.expire = now + 3 * wrapper.timeout]
      BY <1>4 DEF active
    <2>2. now + 3 * wrapper.timeout \in Nat \ {0}
      BY <1>1, <1>4
    <2>3. /\ wrapper' \in Wrappers /\ wrapper'.next = wrapper.next /\ wrapper'.timeout = wrapper.timeout
          /\ wrapper'.due = wrapper.due /\ wrapper'.expire = now + 3 * wrapper.timeout
      BY <1>1, <2>1, <2>2 DEF Wrappers
    <2>4. /\ conn \in {"tuned", "ready"} /\ agreed \in Nat /\ agreed # 0 /\ wrapper.timeout = agreed
          /\ heard \in Nat /\ beat \in Nat
          /\ TimerRuns /\ wrapper.due <= wrapper.next /\ wrapper.due <= wrapper.expire
          /\ queued => wrapper.next <= now + 2 * agreed
          /\ ~queued /\ ~closing => wrapper.next <= beat + 2 * agreed
      BY <1>1, <1>4 DEF Inv, Kept, Beats
    <2>5. wrapper' # None /\ wrapper'.due # None /\ timed(wrapper')
      BY <2>2, <2>3, <2>4, LibEvAssumption DEF TimerRuns, timed
    <2>6. wrapper.due <= now + 3 * agreed
      <3>1. heard <= now /\ wrapper.expire = heard + 3 * agreed
        BY <2>4 DEF Inv, Beats
      <3> QED
        BY <1>1, <2>4, <3>1 DEF TimerRuns
    <2>7. Kept'
      BY <2>3, <2>4, <2>5 DEF Inv, Kept, TimerRuns
    <2>8. /\ queued' => wrapper'.next <= now' + 2 * agreed'
          /\ ~queued' /\ ~closing' => wrapper'.next <= beat' + 2 * agreed'
      BY <1>1, <1>2, <2>3, <2>4
    <2>9. Beats'
      BY <1>1, <1>2, <2>3, <2>4, <2>5, <2>6, <2>8 DEF Beats, TimerRuns
    <2> QED
      BY <1>1, <1>2, <2>4, <2>5, <2>7, <2>9 DEF Inv, Ended, RefsBalanced, TimerRuns
  <1> QED
    BY <1>1, <1>3, <1>4

LEMMA ReadableKeeps == Inv /\ (readable \/ setReady) => Inv'
  BY ActiveKeeps DEF readable, setReady

(* The end of the connection is on its way: only fewer heartbeats are owed. *)
LEMMA CloseKeeps == Inv /\ close => Inv'
  <1> SUFFICES ASSUME Inv, close PROVE Inv'
    OBVIOUS
  <1>1. closing' = TRUE /\ UNCHANGED <<now, wrapper, refs, conn, agreed, heard, queued, beat, ended>>
    BY DEF close
  <1>2. Kept'
    BY <1>1 DEF Inv, Kept, TimerRuns, timed
  <1>3. Beats'
    BY <1>1 DEF Inv, Beats, TimerRuns
  <1> QED
    BY <1>1, <1>2, <1>3 DEF Inv, Ended, RefsBalanced

(* Without heartbeats the timer fires once: a connection that is ready      *)
(* keeps its wrapper, without a timer.                                      *)
LEMMA ConnectTimerKeeps == Inv /\ connectTimer => Inv'
  <1> SUFFICES ASSUME Inv, connectTimer PROVE Inv'
    OBVIOUS
  <1>0. Fired /\ wrapper.timeout = 0 /\ UNCHANGED <<now, agreed, heard, closing, queued, beat>>
    BY DEF connectTimer
  <1>1. /\ Balanced(Reset) /\ Reset.wrapper \in Wrappers
        /\ Reset.wrapper.due = None /\ Reset.wrapper.timeout = 0 /\ Reset.refs = 0
    BY <1>0, ResetBalanced
  <1>2. CASE conn \in {"ready", "closed"} /\ Becomes(Reset) /\ UNCHANGED <<conn, ended>>
    <2>1. wrapper' = Reset.wrapper /\ refs' = 0
      BY <1>1, <1>2 DEF Becomes
    <2>2. Kept'
      BY <1>1, <1>2, <2>1, LibEvAssumption DEF Kept, TimerRuns, Balanced
    <2>3. conn = "ready" => ~queued /\ agreed = 0 /\ agreed \in Nat /\ heard \in Nat /\ beat \in Nat /\ heard <= now
      BY <1>0 DEF Inv, Beats
    <2>4. Beats'
      BY <1>0, <1>1, <1>2, <2>1, <2>3 DEF Beats
    <2> QED
      BY <1>0, <1>1, <1>2, <2>1, <2>2, <2>4 DEF Inv, Ended, RefsBalanced
  <1>3. CASE /\ conn \in {"resolving", "connecting", "tuned"}
             /\ \E socket \in HasSocket : Becomes(closeImmediately(Reset, socket))
             /\ conn' = "closed" /\ ended' = [why |-> "connect", silence |-> 0]
    <2>0. PICK socket \in HasSocket : Becomes(closeImmediately(Reset, socket))
      BY <1>3
    <2> DEFINE l == closeImmediately(Reset, socket)
    <2>1. Balanced(l) /\ (l.wrapper = None \/ Fresh(l.wrapper))
      BY <1>1, CloseBalances DEF Inv
    <2>2. Becomes(l) /\ conn' = "closed" /\ UNCHANGED <<now, closing, queued>> /\ Ended'
      BY <1>0, <1>3, <2>0 DEF Ended
    <2> HIDE DEF l
    <2> QED
      BY <2>1, <2>2, ClosingKeeps
  <1> QED
    BY <1>2, <1>3 DEF connectTimer

(* The server has been silent for as long as was agreed, when it is given up.*)
LEMMA ExpiredKeeps == Inv /\ expired => Inv'
  <1> SUFFICES ASSUME Inv, expired PROVE Inv'
    OBVIOUS
  <1>0. /\ Fired /\ wrapper.timeout # 0 /\ now >= wrapper.expire
        /\ conn' = "closed" /\ ended' = [why |-> "silence", silence |-> now - heard]
        /\ \E socket \in HasSocket : Becomes(closeImmediately(Reset, socket))
        /\ UNCHANGED <<now, agreed, heard, closing, queued, beat>>
    BY DEF expired, silent
  <1>1. Balanced(Reset)
    BY <1>0, ResetBalanced
  <1>2. /\ agreed \in Nat /\ heard \in Nat /\ now \in Nat /\ wrapper.expire = heard + 3 * agreed
    BY <1>0 DEF Inv, Kept, Beats, Fired
  <1>3. Ended'
    BY <1>0, <1>2 DEF Ended
  <1>3a. PICK socket \in HasSocket : Becomes(closeImmediately(Reset, socket))
    BY <1>0
  <1> DEFINE l == closeImmediately(Reset, socket)
  <1>4. Balanced(l) /\ (l.wrapper = None \/ Fresh(l.wrapper))
    BY <1>1, CloseBalances DEF Inv
  <1>5. Becomes(l) /\ conn' = "closed" /\ UNCHANGED <<now, closing, queued>>
    BY <1>0, <1>3a
  <1> HIDE DEF l
  <1> QED
    BY <1>3, <1>4, <1>5, ClosingKeeps

(* The timer is set again, for the nearer of the two times.                 *)
LEMMA HeartbeatKeeps == Inv /\ heartbeat => Inv'
  <1> SUFFICES ASSUME Inv, heartbeat PROVE Inv'
    OBVIOUS
  <1> DEFINE next == IF now >= wrapper.next THEN now + 2 * Max(wrapper.timeout \div 2, 1)
                     ELSE wrapper.next
  <1>0. /\ Fired /\ wrapper.timeout # 0 /\ ~(now >= wrapper.expire)
        /\ wrapper' = [wrapper EXCEPT !.next = next, !.due = Min(next, wrapper.expire)]
        /\ \/ now >= wrapper.next /\ sendHeartbeat
           \/ now < wrapper.next /\ UNCHANGED <<queued, beat>>
        /\ UNCHANGED <<now, refs, conn, agreed, heard, closing, ended>>
    BY DEF heartbeat, silent
  <1>1. /\ wrapper \in Wrappers /\ wrapper # None /\ wrapper.next \in Nat /\ wrapper.expire \in Nat
        /\ wrapper.timeout \in Nat /\ now \in Nat \ {0} /\ refs = -1
        /\ conn \in {"tuned", "ready"} /\ closing \in BOOLEAN /\ queued \in BOOLEAN
    BY <1>0 DEF Inv, Kept, Fired, Wrappers, RefsBalanced
  <1>2. /\ agreed \in Nat /\ agreed # 0 /\ heard \in Nat /\ beat \in Nat /\ heard <= now
        /\ wrapper.timeout = agreed /\ wrapper.expire = heard + 3 * agreed
        /\ conn = "ready" => ~queued
        /\ queued => wrapper.next <= now + 2 * agreed
        /\ ~queued /\ ~closing => wrapper.next <= beat + 2 * agreed
    BY <1>0, <1>1 DEF Inv, Beats
  <1>3. /\ next \in Nat /\ next > 0 /\ next > now /\ beat' \in Nat /\ queued' \in BOOLEAN
        /\ conn = "ready" => ~queued'
        /\ queued' => next <= now + 2 * agreed
        /\ ~queued' /\ ~closing => next <= beat' + 2 * agreed
    <2>1. CASE now >= wrapper.next
      <3>1. next = now + 2 * Max(wrapper.timeout \div 2, 1)
        BY <2>1
      <3>2. next \in Nat /\ next > now /\ next <= now + 2 * agreed
        BY <1>0, <1>1, <1>2, <3>1, HalfIsLess
      <3> HIDE DEF next
      <3>3. /\ beat' = IF conn = "ready" /\ ~closing THEN now ELSE beat
            /\ queued' = (queued \/ (conn = "tuned" /\ ~closing))
        BY <1>0, <1>1, <2>1 DEF sendHeartbeat
      <3>4. CASE conn = "ready"
        <4>1. ~queued /\ queued' = queued
          BY <1>2, <1>1, <3>3, <3>4
        <4>2. CASE closing
          BY <1>1, <1>2, <3>2, <3>3, <3>4, <4>1, <4>2
        <4>3. CASE ~closing
          <5>1. beat' = now
            BY <3>3, <3>4, <4>3
          <5> QED
            BY <1>1, <1>2, <3>2, <3>4, <4>1, <4>3, <5>1
        <4> QED
          BY <4>2, <4>3
      <3>5. CASE conn = "tuned"
        <4>1. beat' = beat /\ queued' \in BOOLEAN /\ (~closing => queued')
          BY <1>1, <3>3, <3>5
        <4> QED
          BY <1>1, <1>2, <3>2, <3>5, <4>1
      <3> QED
        BY <1>1, <3>4, <3>5
    <2>2. CASE now < wrapper.next
      BY <1>0, <1>1, <1>2, <2>2
    <2> QED
      BY <1>1, <2>1, <2>2
  <1> HIDE DEF next
  <1>4. /\ Min(next, wrapper.expire) \in Nat /\ Min(next, wrapper.expire) <= next
        /\ Min(next, wrapper.expire) <= wrapper.expire /\ now <= Min(next, wrapper.expire)
    BY <1>0, <1>1, <1>3, MinIsLeast
  <1>5. /\ wrapper' \in Wrappers /\ wrapper'.next = next /\ wrapper'.expire = wrapper.expire
        /\ wrapper'.timeout = wrapper.timeout /\ wrapper'.due = Min(next, wrapper.expire)
    BY <1>0, <1>1, <1>3, <1>4 DEF Wrappers
  <1>6. wrapper' # None /\ wrapper'.due # None /\ timed(wrapper') /\ TimerRuns'
    BY <1>3, <1>4, <1>5, LibEvAssumption DEF TimerRuns, timed
  <1>7. Kept'
    BY <1>0, <1>1, <1>4, <1>5, <1>6, LibEvAssumption DEF Kept
  <1>8. Beats'
    BY <1>0, <1>1, <1>2, <1>3, <1>4, <1>5, <1>6 DEF Beats
  <1> QED
    BY <1>0, <1>1, <1>3, <1>6, <1>7, <1>8 DEF Inv, Ended, RefsBalanced

(* Time passes, and the loop is not later than Lag.                         *)
LEMMA TickKeeps == Inv /\ tick => Inv'
  <1> SUFFICES ASSUME Inv, tick PROVE Inv'
    OBVIOUS
  <1>0. /\ TimerRuns => now + 1 <= wrapper.due + Lag
        /\ now' = now + 1 /\ now \in Nat \ {0}
        /\ UNCHANGED <<wrapper, refs, conn, agreed, heard, closing, queued, beat, ended>>
    BY DEF tick, TimerRuns, Inv
  <1>1. Kept'
    BY <1>0 DEF Inv, Kept, TimerRuns, timed
  <1>2. Beats'
    <2> SUFFICES ASSUME conn \in {"tuned", "ready"}
                 PROVE  Beats'
      BY <1>0 DEF Beats
    <2>1. agreed \in Nat /\ wrapper.next \in Nat
      BY Living DEF Inv, Beats
    <2>2. agreed # 0 /\ queued => wrapper.next <= now' + 2 * agreed
      BY <1>0, <2>1 DEF Inv, Beats
    <2> QED
      BY <1>0, <2>1, <2>2 DEF Inv, Beats, TimerRuns
  <1> QED
    BY <1>0, <1>1, <1>2 DEF Inv, Ended, RefsBalanced

-----------------------------------------------------------------------------
LEMMA InitInv == Init => Inv
  <1> SUFFICES ASSUME Init PROVE Inv
    OBVIOUS
  <1>0. /\ closing = FALSE /\ queued = FALSE
        /\ now = 1 /\ refs = -1 /\ conn = "resolving" /\ ended.why = "no"
        /\ wrapper = [next |-> 0, expire |-> 1 + Connect, timeout |-> 0, due |-> 1 + Connect]
    BY DEF Init
  <1>1. /\ wrapper \in Wrappers /\ wrapper.due = 1 + Connect /\ wrapper.due \in Nat
        /\ wrapper.timeout = 0 /\ wrapper.expire > 0
    BY <1>0, LibEvAssumption DEF Wrappers
  <1>2. wrapper # None /\ wrapper.due # None /\ TimerRuns /\ timed(wrapper)
    BY <1>1, LibEvAssumption DEF TimerRuns, timed
  <1>3. Kept
    BY <1>0, <1>1, <1>2, LibEvAssumption DEF Kept
  <1>4. closing \in BOOLEAN /\ queued \in BOOLEAN /\ ~queued /\ Beats /\ Ended
    BY <1>0 DEF Beats, Ended
  <1> QED
    BY <1>0, <1>2, <1>3, <1>4 DEF Inv, RefsBalanced

LEMMA NextInv == Inv /\ [Next]_vars => Inv'
  <1> SUFFICES ASSUME Inv, [Next]_vars PROVE Inv'
    OBVIOUS
  <1>1. CASE UNCHANGED vars
    BY <1>1 DEF vars, Inv, Kept, Beats, Ended, RefsBalanced, TimerRuns, timed
  <1>2. CASE Next
    BY <1>2, ConnectedKeeps, UnresolvedKeeps, NegotiateKeeps, ReadableKeeps, LostKeeps, CloseKeeps, ClosesKeeps,
       ConnectTimerKeeps, ExpiredKeeps, HeartbeatKeeps, TickKeeps DEF Next
  <1> QED
    BY <1>1, <1>2

(* Every state that LibEvHandler reaches satisfies the inductive invariant. *)
THEOREM TimerInvariance == Spec => []Inv
  BY InitInv, NextInv, PTL DEF Spec

(* The references of the event loop are balanced: one is taken exactly      *)
(* while the timer of a wrapper runs, whatever ends the timer, the wrapper  *)
(* or the connection (the destructor of Wrapper, onExpired(), close(true)). *)
THEOREM ReferencesBalanced == Spec => []RefsBalanced
  <1>1. Inv => RefsBalanced
    BY DEF Inv
  <1> QED
    BY <1>1, TimerInvariance, PTL

(* A server that is silent is given up by onExpired() after one and a half  *)
(* times the interval, late by no more than the loop is, and not before.    *)
THEOREM SilenceNoticed == Spec => []SilenceIsNoticed
  <1>1. Inv => SilenceIsNoticed
    <2> SUFFICES ASSUME Inv PROVE SilenceIsNoticed
      OBVIOUS
    <2>1. ASSUME conn \in {"tuned", "ready"}, agreed # 0
          PROVE  now <= heard + 3 * agreed + Lag
      <3>1. /\ TimerRuns /\ wrapper.due <= wrapper.expire /\ wrapper.expire = heard + 3 * agreed
            /\ agreed \in Nat /\ heard \in Nat /\ now \in Nat
        BY <2>1 DEF Inv, Beats
      <3>2. now <= wrapper.due + Lag /\ wrapper.due \in Nat
        BY <3>1 DEF Inv, Kept, TimerRuns, Wrappers
      <3> QED
        BY <3>1, <3>2, LibEvAssumption
    <2>2. ended.why = "silence" => ended.silence >= 3 * agreed
      BY DEF Inv, Ended
    <2> QED
      BY <2>1, <2>2 DEF SilenceIsNoticed
  <1> QED
    BY <1>1, TimerInvariance, PTL

(* Our own heartbeats, which onExpired() sends every half of the interval,  *)
(* are never further apart than the interval and the delay of the loop,     *)
(* from open-ok until the connection is being closed, whatever the handshake*)
(* took and although ConnectionImpl::send() had queued them until then.     *)
THEOREM HeartbeatsInTime == Spec => []WeAreHeard
  <1>1. Inv => WeAreHeard
    <2> SUFFICES ASSUME Inv, conn = "ready", ~closing, agreed # 0
                 PROVE  now <= beat + 2 * agreed + Lag
      BY DEF WeAreHeard
    <2>1. /\ TimerRuns /\ wrapper.due <= wrapper.next /\ wrapper.next <= beat + 2 * agreed
          /\ agreed \in Nat /\ beat \in Nat /\ now \in Nat
      BY DEF Inv, Beats
    <2>2. now <= wrapper.due + Lag /\ wrapper.due \in Nat /\ wrapper.next \in Nat
      BY <2>1 DEF Inv, Kept, TimerRuns, Wrappers
    <2> QED
      BY <2>1, <2>2, LibEvAssumption
  <1> QED
    BY <1>1, TimerInvariance, PTL
=============================================================================
