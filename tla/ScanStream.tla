----------------------------- MODULE ScanStream -----------------------------
(***************************************************************************)
(* The promise of the scan characteristic (README.md:86 and the docstring  *)
(* of _on_write_scan, service.py:128-133): what a central sees on the wire *)
(* is a succession of streams, each one coherent,                          *)
(*                                                                         *)
(*     begin, net 1, ..., net n, end n        or        begin, err         *)
(*                                                                         *)
(* possibly cut short by the begin of a newer stream, after which nothing  *)
(* of the older one is ever seen again.                                    *)
(***************************************************************************)
EXTENDS Naturals

CONSTANTS
    Streams,    \* the streams, one for each request that gets one
    NoStream,   \* the stream of the frame on the wire before the first one
    MaxNets     \* BOUND on the networks of one stream (30 in the code)

VARIABLES
    wire,       \* the last frame notified: [s: its stream, t: its type, n: its number]
    begun       \* the streams whose begin has been notified

vars == <<wire, begun>>

Frame(s, t, n) == [s |-> s, t |-> t, n |-> n]

Init ==
    /\ wire = Frame(NoStream, "none", 0)
    /\ begun = {}

Begin(s) ==
    /\ s \notin begun
    /\ begun' = begun \cup {s}
    /\ wire' = Frame(s, "begin", 0)

Net(s) ==
    /\ wire.s = s
    /\ wire.t \in {"begin", "net"}
    /\ wire.n < MaxNets
    /\ wire' = Frame(s, "net", wire.n + 1)
    /\ UNCHANGED begun

\* The end frame carries the number of the networks the stream has shown.
End(s) ==
    /\ wire.s = s
    /\ wire.t \in {"begin", "net"}
    /\ wire' = Frame(s, "end", wire.n)
    /\ UNCHANGED begun

Err(s) ==
    /\ wire.s = s
    /\ wire.t = "begin"
    /\ wire' = Frame(s, "err", 0)
    /\ UNCHANGED begun

Next == \E s \in Streams : Begin(s) \/ Net(s) \/ End(s) \/ Err(s)

Spec == Init /\ [][Next]_vars
=============================================================================
