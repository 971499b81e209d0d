--------------------------- MODULE Configuration ---------------------------
(***************************************************************************)
(* app/config.ini and what becomes of it: the parser of src/third_reporty/   *)
(* inih calls config_handler (src/src/config.c) for each value it finds, and  *)
(* gateway_server_menu (src/src/menu.c) makes the parameters of the thread    *)
(* pool from the result.  Read once, before any thread starts.               *)
(*                                                                         *)
(* A line of the file is a record: whether it is indented, what kind it is, a  *)
(* section, a pair of a name and a value, or another text that is no comment, *)
(* and its whole text taken for a value.  A number is what atoi makes of the   *)
(* text, 0 if there is none; a path is a string, and that it is cut off after *)
(* 127 bytes is left out.                                                    *)
(***************************************************************************)
EXTENDS Integers, SequencesExt

INT_MAX == 2 ^ 31 - 1
Int32   == -INT_MAX - 1 .. INT_MAX

Config == [log_path : STRING, json_path : STRING,
           task_num : Int32, thread_max : Int32, thread_min : Int32]

\* memset: what the file does not say is empty or 0.
Zero == [log_path |-> "", json_path |-> "", task_num |-> 0, thread_max |-> 0, thread_min |-> 0]

\* The last value of a key wins; other keys and sections are ignored.
config_handler(cfg, section, name, value) ==
    CASE section = "log" /\ name = "path"               -> [cfg EXCEPT !.log_path = value]
      [] section = "log" /\ name = "json_path"          -> [cfg EXCEPT !.json_path = value]
      [] section = "thread_pool" /\ name = "task_num"   -> [cfg EXCEPT !.task_num = value]
      [] section = "thread_pool" /\ name = "thread_max" -> [cfg EXCEPT !.thread_max = value]
      [] section = "thread_pool" /\ name = "thread_min" -> [cfg EXCEPT !.thread_min = value]
      [] OTHER -> cfg

\* One line.  An indented line continues the pair before it, if the section has had one:
\* its whole text is taken for a further value of that pair's name, also if it looks like
\* a section or a pair itself.
ini_line(state, line) ==
    CASE line.indented /\ state.prev_name # "" ->
            [state EXCEPT !.cfg = config_handler(@, state.section, state.prev_name, line.text)]
      [] ~(line.indented /\ state.prev_name # "") /\ line.kind = "section" ->
            [state EXCEPT !.section = line.name, !.prev_name = ""]
      [] ~(line.indented /\ state.prev_name # "") /\ line.kind = "pair" ->
            [state EXCEPT !.prev_name = line.name,
                          !.cfg = config_handler(@, state.section, line.name, line.value)]
      [] OTHER -> state

\* A line that is wrong does not stop the parser, and only a file that cannot be
\* opened makes config_load fail; nobody looks at what it returns.
config_load(lines) ==
    FoldLeft(ini_line, [section |-> "", prev_name |-> "", cfg |-> Zero], lines).cfg

\* gateway_server_menu.
pool_min(c)   == IF c.thread_min > 0 THEN c.thread_min ELSE 2
pool_max(c)   == IF c.thread_max > pool_min(c) THEN c.thread_max ELSE pool_min(c) + 1
pool_queue(c) == IF c.task_num > 0 THEN c.task_num ELSE 100
=============================================================================
