------------------------------ MODULE MCLogger ------------------------------
(* Logger on an instance small enough for TLC. *)
EXTENDS Logger, TLC

CONSTANT c1

MCCallers == {c1}

\* A FATAL message alone fills a file of two bytes.
MCSizeOf(m) == IF m.level = "FATAL" THEN 2 ELSE 1

Shipped == [buffer_size |-> 1, threshold |-> 2, linear_growth |-> 1,
            flush_log |-> 1, thread_count |-> 1, backup_queue_size |-> 1,
            backup_addr |-> "127.0.0.1", backup_port |-> 8080,
            backup_connect_timeout_ms |-> 1, backup_send_timeout_ms |-> 1,
            backup_retries |-> 1, backup_enabled |-> "true"]

\* The shipped configuration scaled down, with each policy for flushing,
\* without backup and without an address for it; and ones that are refused.
MCConfigs ==
  {Shipped,
   [Shipped EXCEPT !.flush_log = 0, !.backup_enabled = "false"],
   [Shipped EXCEPT !.flush_log = 2, !.thread_count = 2,
                   !.backup_addr = "no address"],
   [Shipped EXCEPT !.flush_log = 3],
   [Shipped EXCEPT !.backup_queue_size = 0],
   [Shipped EXCEPT !.buffer_size = -1],
   [Shipped EXCEPT !.threshold = 0],
   [Shipped EXCEPT !.backup_enabled = "maybe"]}
=============================================================================
