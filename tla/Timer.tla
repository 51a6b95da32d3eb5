------------------------------- MODULE Timer -------------------------------
(***************************************************************************)
(* The single-shot timer of the event loop (main.c): set_timeout() and     *)
(* cancel_timeout(), and the part of each iteration of the select() loop   *)
(* that turns the deadline into select()'s timeout, waits, reads the clock *)
(* again and runs the handler once the deadline has passed.                *)
(*                                                                         *)
(* Time is CLOCK_MONOTONIC as the code holds it: a struct timespec         *)
(* [sec, nsec], with the code's own carry, comparison and division.  Only  *)
(* distances from the timer matter, so the clock is normalised: whenever   *)
(* no timer is armed its seconds are dropped, and set_timeout() starts the *)
(* count of seconds again from 0; the nanoseconds, where the arithmetic    *)
(* has its edges, are kept.                                                *)
(***************************************************************************)
EXTENDS Integers

CONSTANTS
    Ms,         \* the delay every caller passes (ring.c:118 and :580)
    ClockNsec,  \* sub-second values the clock may show when a wait starts
    Delays,     \* nanoseconds select() may wait before a descriptor is ready
    Oversleep,  \* nanoseconds the kernel may sleep past select()'s timeout
    MaxWakes    \* early wake-ups of select() per armed timer

ASSUME /\ Ms \in Nat \ {0}
       /\ ClockNsec \subseteq 0..999999999
       /\ Delays \subseteq 1..999999999
       /\ Oversleep \subseteq Nat
       /\ MaxWakes \in Nat

VARIABLES
    now,              \* the clock
    timeout_instant,  \* deadline computed by set_timeout()
    timeout_handler,  \* "pred_timeout" or "none" (NULL)
    select_timeout,   \* struct timeval computed for select()
    select_timeout_ptr, \* FALSE: select() is passed NULL and waits for ever
    pc,               \* where the loop is: "compute", "select", "check", "handlers"
    woke,             \* why select() last returned: "ready" or "timeout"
    set_at,           \* the clock when set_timeout() ran
    wakes,            \* early wake-ups since then
    epoch             \* flips on every set_timeout()

vars == <<now, timeout_instant, timeout_handler, select_timeout,
          select_timeout_ptr, pc, woke, set_at, wakes, epoch>>

Second == 1000000000

Zero == [sec |-> 0, nsec |-> 0]

\* C's integer division truncates towards zero; TLA+'s \div floors.
CDiv(a, b) == IF a >= 0 THEN a \div b ELSE -((-a) \div b)

\* t advanced by s seconds and ns nanoseconds, normalised.
AddTime(t, s, ns) ==
    [sec |-> t.sec + s + (t.nsec + ns) \div Second, nsec |-> (t.nsec + ns) % Second]

\* a is earlier than b (both normalised).
Before(a, b) == a.sec < b.sec \/ (a.sec = b.sec /\ a.nsec < b.nsec)

\* What the deadline should be: t plus ms milliseconds.
RefDeadline(t, ms) == AddTime(t, ms \div 1000, (ms % 1000) * 1000000)

\* The deadline as set_timeout() computes it: whole seconds are added, then
\* every millisecond again as nanoseconds, with a carry when nsec > 1e9.
Deadline_NoCarry(t, ms) ==
    [sec |-> t.sec + CDiv(ms, 1000), nsec |-> t.nsec + ms * 1000000]

Deadline(t, ms) ==
    LET s == t.sec + CDiv(ms, 1000)
        n == t.nsec + ms * 1000000
    IN IF n > Second THEN [sec |-> s + 1, nsec |-> n - Second]
                     ELSE [sec |-> s, nsec |-> n]

\* The loop's test that the deadline has passed (main.c:407 and :430).
Passed_NsecOnly(t, d) == t.nsec > d.nsec

Passed(t, d) == t.sec > d.sec \/ (t.sec = d.sec /\ t.nsec > d.nsec)

\* The time left until d as a struct timeval, rounded up by 1 us, with a
\* borrow from the seconds when the microseconds come out negative.
TimeLeft_NoBorrow(d, t) ==
    [sec |-> d.sec - t.sec, usec |-> CDiv(d.nsec - t.nsec, 1000) + 1]

TimeLeft_NoRoundUp(d, t) ==
    LET s == d.sec - t.sec
        u == CDiv(d.nsec - t.nsec, 1000)
    IN IF u < 0 THEN [sec |-> s - 1, usec |-> u + 1000000] ELSE [sec |-> s, usec |-> u]

TimeLeft(d, t) ==
    LET s == d.sec - t.sec
        u == CDiv(d.nsec - t.nsec, 1000) + 1
    IN IF u < 0 THEN [sec |-> s - 1, usec |-> u + 1000000] ELSE [sec |-> s, usec |-> u]

\* When select() with timeout tv, started at t, returns 0.
WakeTime(t, tv) == AddTime(t, tv.sec, tv.usec * 1000)

\* timeout_handler = NULL; with no timer the clock's seconds are dropped.
Disarm ==
    /\ timeout_handler' = "none"
    /\ now' = [sec |-> 0, nsec |-> now.nsec]
    /\ timeout_instant' = Zero
    /\ set_at' = Zero

Init ==
    /\ now \in [sec : {0}, nsec : ClockNsec]
    /\ timeout_instant = Zero
    /\ timeout_handler = "none"
    /\ select_timeout = [sec |-> 0, usec |-> 0]
    /\ select_timeout_ptr = FALSE
    /\ pc = "compute"
    /\ woke = "ready"
    /\ set_at = Zero
    /\ wakes = 0
    /\ epoch = FALSE

\* Top of the loop: no timer, no timeout; a passed deadline, a zero
\* timeout; otherwise the time left.
ComputeTimeout ==
    /\ pc = "compute"
    /\ select_timeout_ptr' = (timeout_handler # "none")
    /\ IF timeout_handler = "none"
          THEN UNCHANGED select_timeout
          ELSE select_timeout' = IF Passed(now, timeout_instant)
                                    THEN [sec |-> 0, usec |-> 0]
                                    ELSE TimeLeft(timeout_instant, now)
    /\ pc' = "select"
    /\ UNCHANGED <<now, timeout_instant, timeout_handler, woke, set_at, wakes, epoch>>

\* select() returns because a descriptor is ready, before its timeout.
\* Without a timeout (NULL, which the loop passes only when no timer is
\* armed) the time that has passed is unobservable: any sub-second value.
SelectReady ==
    /\ pc = "select"
    /\ \/ /\ ~select_timeout_ptr
          /\ now' \in [sec : {0}, nsec : ClockNsec]
          /\ UNCHANGED wakes
       \/ /\ select_timeout_ptr
          /\ wakes < MaxWakes
          /\ \E d \in Delays :
                /\ ~Before(WakeTime(now, select_timeout), AddTime(now, 0, d))
                /\ now' = AddTime(now, 0, d)
          /\ wakes' = wakes + 1
    /\ woke' = "ready"
    /\ pc' = "check"
    /\ UNCHANGED <<timeout_instant, timeout_handler, select_timeout,
                   select_timeout_ptr, set_at, epoch>>

\* select() returns 0: the timeout has elapsed, maybe a little more.
SelectTimeout ==
    /\ pc = "select"
    /\ select_timeout_ptr
    /\ \E o \in Oversleep : now' = AddTime(WakeTime(now, select_timeout), 0, o)
    /\ woke' = "timeout"
    /\ pc' = "check"
    /\ UNCHANGED <<timeout_instant, timeout_handler, select_timeout,
                   select_timeout_ptr, set_at, wakes, epoch>>

\* After select(): the clock is read again and a passed deadline runs the
\* handler and clears it.
Check_KeepsHandler ==
    /\ pc = "check"
    /\ pc' = "handlers"
    /\ UNCHANGED <<now, timeout_instant, timeout_handler, select_timeout,
                   select_timeout_ptr, woke, set_at, wakes, epoch>>

Check ==
    /\ pc = "check"
    /\ IF timeout_handler # "none" /\ Passed(now, timeout_instant)
          THEN Disarm
          ELSE UNCHANGED <<now, timeout_instant, timeout_handler, set_at>>
    /\ pc' = "handlers"
    /\ UNCHANGED <<select_timeout, select_timeout_ptr, woke, wakes, epoch>>

\* set_timeout(Ms, pred_timeout), called by a handler; a running timer is
\* replaced (after a debug warning).  It reads the clock itself, some time
\* after the loop did: any sub-second value.
SetTimeout ==
    \E t \in [sec : {0}, nsec : ClockNsec] :
       /\ now' = t
       /\ set_at' = t
       /\ timeout_instant' = Deadline(t, Ms)
       /\ timeout_handler' = "pred_timeout"
       /\ wakes' = 0
       /\ epoch' = ~epoch

\* cancel_timeout(): nothing to do without a timer.
CancelTimeout ==
    /\ IF timeout_handler = "none"
          THEN UNCHANGED <<now, timeout_instant, timeout_handler, set_at>>
          ELSE Disarm
    /\ UNCHANGED <<wakes, epoch>>

\* The handlers of the ready descriptors run; one may set or cancel the
\* timer (ring.c:118, :474, :580), or none does.
Handlers ==
    /\ pc = "handlers"
    /\ \/ SetTimeout
       \/ CancelTimeout
       \/ UNCHANGED <<now, timeout_instant, timeout_handler, set_at, wakes, epoch>>
    /\ pc' = "compute"
    /\ UNCHANGED <<select_timeout, select_timeout_ptr, woke>>

Next == ComputeTimeout \/ SelectReady \/ SelectTimeout \/ Check \/ Handlers

Spec == Init /\ [][Next]_vars

\* Each step of the loop that can happen does: select() returns (it has a
\* timeout whenever a timer is armed) and the loop goes on.
FairSpec ==
    /\ Spec
    /\ WF_vars(ComputeTimeout)
    /\ WF_vars(SelectReady \/ SelectTimeout)
    /\ WF_vars(Check)
    /\ WF_vars(Handlers)

-----------------------------------------------------------------------------

Time == [sec : Nat, nsec : 0..Second]

TypeOK ==
    /\ now \in [sec : Nat, nsec : 0..Second - 1]
    /\ timeout_instant \in Time
    /\ timeout_handler \in {"none", "pred_timeout"}
    /\ select_timeout \in [sec : Int, usec : Int]
    /\ select_timeout_ptr \in BOOLEAN
    /\ pc \in {"compute", "select", "check", "handlers"}
    /\ woke \in {"ready", "timeout"}
    /\ set_at \in Time
    /\ wakes \in 0..MaxWakes
    /\ epoch \in BOOLEAN

\* The timeout given to select() is never negative: Linux fails select()
\* with EINVAL on a negative struct timeval, and the loop then calls error()
\* (main.c:438).  It is about the borrow of main.c:415-418.
SelectTimeoutValid ==
    select_timeout_ptr => select_timeout.sec >= 0 /\ select_timeout.usec >= 0

\* The handler never runs before Ms milliseconds have passed since
\* set_timeout(): the carry of main.c:289-292 and the comparison of
\* main.c:430 never make the timer early.
NeverEarly ==
    [][pc = "check" /\ timeout_handler # "none" /\ timeout_handler' = "none"
       => ~Before(now, RefDeadline(set_at, Ms))]_vars

\* When select() returns because its timeout elapsed, the handler runs in
\* that same iteration: the time left of main.c:413-419 is rounded up, so
\* the loop does not wake just short of the deadline and go round again.
WakeFires ==
    [][pc = "check" /\ woke = "timeout" => timeout_handler' = "none"]_vars

\* An armed timer eventually runs, unless it is cancelled or replaced first:
\* the loop (main.c:401-436) clears the handler once the deadline passes.
TimerFires ==
    \A e \in BOOLEAN :
        (timeout_handler # "none" /\ epoch = e)
            ~> (timeout_handler = "none" \/ epoch # e)

\* The handler runs at the first check after Ms milliseconds (spec.md: the
\* predecessor timer is of 1 second).
NotLate ==
    [][pc = "check" /\ timeout_handler # "none" /\ Before(RefDeadline(set_at, Ms), now)
       => timeout_handler' = "none"]_vars

=============================================================================
