--------------------------- MODULE MCFlowControl ---------------------------
(* The constants of connection.c, send_queue.h and buffer_pool.h, an eighth *)
(* of their size, with 768 bytes as the unit: a pool buffer is two units, a *)
(* recv() fills it or half of it.  Six half-filled buffers reach the lowest *)
(* high watermark without being a batch.                                    *)
EXTENDS FlowControl

\* Six streams share the pool, so the fair share is the minimum; other
\* clients hold nothing, so much of a pool at its maximum that this client
\* tips the burst factor, or so much that it runs out.
MCLoads == {[active |-> 6, buffers |-> 32, others |-> 0],
            [active |-> 6, buffers |-> 48, others |-> 40],
            [active |-> 6, buffers |-> 48, others |-> 43]}
=============================================================================
