------------------------------ MODULE MCSysmon ------------------------------
(* The dashboard and the metrics collector share one Reader.               *)
EXTENDS Sysmon

CONSTANTS dashboard, scrape

Quiet == [busy |-> {0}, idle |-> {0}, bytes |-> {0}, jiffies |-> {0}, changes |-> {}]

\* Busy time, and iowait that is taken back now and then.
Computing == [Quiet EXCEPT !.busy = {0, 2}, !.idle = {-1, 0, 1}]

\* Traffic on an interface that comes and goes.
Receiving == [Quiet EXCEPT !.bytes = {0, 1}, !.changes = {"net"}]

\* A process that stops and starts.
Restarting == [Quiet EXCEPT !.jiffies = {0, 1}, !.changes = {"proc"}]

All == {Computing, Receiving, Restarting}
Idle == {Quiet}
=============================================================================
