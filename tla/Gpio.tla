-------------------------------- MODULE Gpio --------------------------------
(***************************************************************************)
(* src/src/gpio.c, as src/main.c uses it: pins taken and released through the *)
(* sysfs files of the kernel (external: which pins are exported, their        *)
(* direction and level, and whether a write takes effect).  The calls come    *)
(* from one thread, one after the other, and end with gpio_cleanup.  The       *)
(* program may be killed between two calls and started again; the kernel keeps *)
(* the pins as they were.                                                    *)
(***************************************************************************)
EXTENDS Naturals, SequencesExt

CONSTANTS
    Pin,
    GPIO_MAX_PINS,
    MaxStarts    \* bound: starts of the program

ASSUME GpioAssumption == GPIO_MAX_PINS \in Nat /\ MaxStarts \in Nat

Level == 0 .. 1
Direction == {"in", "out"}

VARIABLES
    exported, direction, level,     \* external: the kernel's side, per pin
    gpio_initialized,   \* the list, up to gpio_init_count
    cleanup, i,         \* gpio_cleanup: "no", "loop" or "done", and its index
    ret, pin,           \* where the last call ended, and its pin
    starts,
    held,       \* history: pins for which gpio_init returned 0, not unexported since
    beyond,     \* history: those it took when the array was full
    refused     \* history: those whose unexport has failed since

kernel == <<exported, direction, level>>
history == <<held, beyond, refused>>
vars == <<kernel, gpio_initialized, cleanup, i, ret, pin, starts, history>>

Tracked == ToSet(gpio_initialized)

\* An earlier run may have left pins exported.
Init ==
    /\ exported \in SUBSET Pin
    /\ direction \in [Pin -> Direction]
    /\ level = [p \in Pin |-> 0]
    /\ gpio_initialized = << >> /\ cleanup = "no" /\ i = 0
    /\ ret = "none" /\ pin \in Pin
    /\ starts = 1 /\ held = {} /\ beyond = {} /\ refused = {}

Return(p, where) == ret' = where /\ pin' = p

\* Mutant of Record: the array is not checked for room.
RecordAlways(p) == gpio_initialized' = Append(gpio_initialized, p)

\* A pin beyond the array's end is in use but not on the list.
Record(p) ==
    gpio_initialized' = IF Len(gpio_initialized) < GPIO_MAX_PINS
                        THEN Append(gpio_initialized, p) ELSE gpio_initialized

Taken(p) ==
    /\ Record(p)
    /\ held' = held \union {p} /\ refused' = refused \ {p}
    /\ beyond' = IF Len(gpio_initialized) < GPIO_MAX_PINS THEN beyond \ {p} ELSE beyond \union {p}

\* gpio_init(p, d, v).  The export may fail, also for a pin that is exported (no more
\* descriptors, no permission, or an errno that is no longer write's).  EBUSY is passed
\* over; when it means that a driver of the kernel has the pin, there is no file for the
\* direction.  The writes of the level may be lost; a failed read-back leaves `verify` as
\* it was, so what was read (got) need not be what is there (l).
gpio_init(p, d, v) ==
    /\ cleanup = "no"
    /\ \/ /\ p \in Tracked
          /\ Return(p, "already") /\ UNCHANGED <<kernel, gpio_initialized, history>>
       \/ /\ p \notin Tracked
          /\ Return(p, "export") /\ UNCHANGED <<kernel, gpio_initialized, history>>
       \/ /\ p \notin Tracked /\ exported' \in {exported, exported \union {p}}
          /\ Return(p, "direction") /\ UNCHANGED <<direction, level, gpio_initialized, history>>
       \/ /\ p \notin Tracked /\ exported' = exported \union {p}
          /\ direction' = [direction EXCEPT ![p] = d]
          /\ \/ d = "in" /\ UNCHANGED level /\ Return(p, "ok")
             \/ /\ d = "out"
                /\ \E l, got \in Level :
                     /\ level' = [level EXCEPT ![p] = l]
                     /\ Return(p, IF got = v THEN "ok" ELSE "verify")
          /\ IF ret' = "ok" THEN Taken(p) ELSE UNCHANGED <<gpio_initialized, history>>
    /\ UNCHANGED <<cleanup, i, starts>>

\* gpio_set(p, v): writing needs an exported output; a read-back that fails is passed over.
Set(p, v) ==
    \/ /\ p \in exported /\ direction[p] = "out"
       /\ \E l \in {v, level[p]} : level' = [level EXCEPT ![p] = l]
       /\ Return(p, "ok") \/ Return(p, "verify")
    \/ Return(p, "write") /\ UNCHANGED level

gpio_set(p, v) ==
    /\ cleanup = "no" /\ Set(p, v)
    /\ UNCHANGED <<exported, direction, gpio_initialized, cleanup, i, starts, history>>

\* gpio_toggle(p): gpio_get, which may fail, then gpio_set.
gpio_toggle(p) ==
    /\ cleanup = "no"
    /\ \/ p \in exported /\ Set(p, 1 - level[p])
       \/ Return(p, "read") /\ UNCHANGED level
    /\ UNCHANGED <<exported, direction, gpio_initialized, cleanup, i, starts, history>>

\* Mutant of Compact: the last entry is dropped, whatever the pin.
CompactLast(s, p) == IF Contains(s, p) THEN Front(s) ELSE s

\* The first entry of p goes, the later ones move up.
Compact(s, p) == RemoveFirst(s, p)

\* gpio_uninit(p): level 0, off the list, unexport.  Either write may fail; the pin is off
\* the list all the same.
Uninit(p) ==
    /\ \/ UNCHANGED level
       \/ p \in exported /\ direction[p] = "out" /\ level' = [level EXCEPT ![p] = 0]
    /\ gpio_initialized' = Compact(gpio_initialized, p)
    /\ \/ /\ p \in exported /\ exported' = exported \ {p} /\ Return(p, "ok")
          /\ held' = held \ {p} /\ beyond' = beyond \ {p} /\ refused' = refused \ {p}
       \/ /\ Return(p, "unexport") /\ UNCHANGED <<exported, held, beyond>>
          /\ refused' = refused \union (held \intersect {p})
    /\ UNCHANGED direction

gpio_uninit(p) == cleanup = "no" /\ Uninit(p) /\ UNCHANGED <<cleanup, i, starts>>

\* Mutant of CleanupMore: the loop stops before the first entry.
CleanupMoreButFirst == i > 1

\* gpio_cleanup: the loop goes from the last entry (index count - 1, here count) to the
\* first, while gpio_uninit shortens the list under it.
CleanupMore == i >= 1

CleanupBegin ==
    /\ cleanup = "no"
    /\ cleanup' = "loop" /\ i' = Len(gpio_initialized)
    /\ UNCHANGED <<kernel, gpio_initialized, ret, pin, starts, history>>

CleanupNext ==
    /\ cleanup = "loop" /\ CleanupMore
    /\ Uninit(gpio_initialized[i])
    /\ i' = i - 1
    /\ UNCHANGED <<cleanup, starts>>

CleanupEnd ==
    /\ cleanup = "loop" /\ ~CleanupMore
    /\ cleanup' = "done" /\ gpio_initialized' = << >>
    /\ UNCHANGED <<kernel, i, ret, pin, starts, history>>

\* The program ends, or is killed, and starts again.
Restart ==
    /\ starts < MaxStarts
    /\ starts' = starts + 1
    /\ gpio_initialized' = << >> /\ cleanup' = "no" /\ i' = 0 /\ ret' = "none"
    /\ held' = {} /\ beyond' = {} /\ refused' = {}
    /\ UNCHANGED <<kernel, pin>>

Call(p) == \/ \E v \in Level : gpio_set(p, v) \/ \E d \in Direction : gpio_init(p, d, v)
           \/ gpio_toggle(p) \/ gpio_uninit(p)

Next == (\E p \in Pin : Call(p)) \/ CleanupBegin \/ CleanupNext \/ CleanupEnd \/ Restart

Spec == Init /\ [][Next]_vars

-----------------------------------------------------------------------------
(* Properties.                                                             *)

\* Every variable has its type, and the loop of gpio_cleanup never reads behind the
\* end of the list it shortens.
TypeOK ==
    /\ exported \subseteq Pin /\ direction \in [Pin -> Direction] /\ level \in [Pin -> Level]
    /\ gpio_initialized \in Seq(Pin) /\ Len(gpio_initialized) <= GPIO_MAX_PINS
    /\ cleanup \in {"no", "loop", "done"} /\ i \in Nat
    /\ pin \in Pin /\ held \subseteq Pin /\ beyond \subseteq Pin /\ refused \subseteq Pin
    /\ cleanup = "loop" => i <= Len(gpio_initialized)

\* A pin is on the list at most once, it is exported, and gpio_init has returned 0 for
\* it: also after calls that failed half way, and after a restart.
ListAccurate ==
    /\ IsInjective(gpio_initialized)
    /\ Tracked \subseteq exported /\ Tracked \subseteq held

\* After gpio_cleanup the pins that gpio_init took are released: although gpio_uninit
\* shortens the list inside the loop, no entry of it is skipped.  What is still in use
\* was taken when the array was full, or the kernel did not take it back (gpio.c 266-275).
CleanupReleases == cleanup = "done" => held \subseteq beyond \union refused

\* "Releases all initialised pins" (gpio.c:267).  It is not so for a pin beyond
\* GPIO_MAX_PINS, which gpio_cleanup does not try to release.
CleanupReleasesAll == cleanup = "done" => held \subseteq refused
=============================================================================
