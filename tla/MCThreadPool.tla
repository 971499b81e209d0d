--------------------------- MODULE MCThreadPool ----------------------------
(* Instances of ThreadPool for TLC.                                        *)
EXTENDS ThreadPool, Configuration, TLC

section(name)     == [indented |-> FALSE, kind |-> "section", name |-> name]
pair(name, value) == [indented |-> FALSE, kind |-> "pair", name |-> name, value |-> value]

\* A configuration file: an indented line after the header is a pair like any other, the
\* one after thread_min overrides it, thread_max is not set, task_num is set twice.
SmallPool == config_load(<<
    section("thread_pool"),
    [indented |-> TRUE, kind |-> "pair", name |-> "task_num", value |-> 1],
    pair("thread_min", 2),
    [indented |-> TRUE, kind |-> "text", text |-> 1],
    pair("task_num", 2)>>)

ConfiguredMin   == pool_min(SmallPool)
ConfiguredMax   == pool_max(SmallPool)
ConfiguredQueue == pool_queue(SmallPool)

\* Heap blocks and producers are interchangeable (safety runs only).
PoolSymmetry == Permutations(Task) \cup Permutations(Producer)
=============================================================================
