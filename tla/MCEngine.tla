-------------------------------- MODULE MCEngine --------------------------------
(* A small instance of Engine: five of the rules of src/nazar-agent/rules.toml *)
(* in their order, and before them the one the README describes for            *)
(* same_process = false, a file one process writes and another one runs.       *)
EXTENDS Engine

On(kind, path, dst) == [kind |-> kind, path |-> path, dst |-> dst]

Dropped == On("exec", "/tmp/x", "-")
Hidden == On("exec", "/tmp/.x", "-")
Autostart == On("write", "/etc/cron.d/x", "-")
Outbound == On("connect", "/tmp/x", "out")
Loopback == On("connect", "/tmp/x", "lo")
ShellOutbound == On("connect", "/bin/sh", "out")

MCFacts == {Dropped, Hidden, Autostart, Outbound, Loopback, ShellOutbound}

Rule(on, all, any, not) ==
  [on |-> on, all |-> all, any |-> any, not |-> not,
   after |-> NoRule, within |-> 0, same_process |-> FALSE]

After(rule, after, within, same_process) ==
  [rule EXCEPT !.after = after, !.within = within, !.same_process = same_process]

MCRules == <<
  After(Rule("exec", {}, {}, {}), 4, 1, FALSE),            \* write, then exec elsewhere
  Rule("exec", {{Hidden}}, {}, {}),                        \* hidden_file_exec
  Rule("exec", {{Dropped, Hidden}}, {}, {}),               \* exec_from_writable_dir
  Rule("write", {}, {{Autostart}, {}}, {}),                \* persistence_write
  Rule("connect", {{ShellOutbound}}, {}, {{Loopback}}),    \* shell_outbound_connection
  After(Rule("connect", {}, {}, {{Loopback}}), 3, 2, TRUE) \* writable_exec_then_outbound
>>
================================================================================
