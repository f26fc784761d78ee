--------------------------- MODULE MCDrbdConnect ---------------------------
(***************************************************************************)
(* Instances of DrbdConnect for TLC.                                       *)
(***************************************************************************)
EXTENDS DrbdConnect

Plain == [min |-> 118, max |-> 124, features |-> {"TRIM", "RESYNC_DAGTAG"}, secret |-> "none",
          settings |-> "C"]
Old == [Plain EXCEPT !.max = 120, !.features = {"TRIM"}]
Recent == [Plain EXCEPT !.min = 122]
With(a, b) == [n \in Nodes |-> IF n = 1 THEN a ELSE b]
Secret(s) == [Plain EXCEPT !.secret = s]

\* The listeners of the nodes: one per path, or one for all paths of node 1.
Separate == [n \in Nodes |-> [p \in Paths |-> p]]
Shared == [Separate EXCEPT ![1] = [p \in Paths |-> 1]]

Base == [paths |-> 1, greater |-> [p \in Paths |-> 1], listener |-> Separate, conf |-> With(Plain, Plain),
         sockets |-> 2, pending |-> 2,
         loss |-> 0, timeouts |-> 0, unreachable |-> 0, no_addr |-> 0, disconnects |-> 0]
TwoPaths == [Base EXCEPT !.paths = 2, !.greater = [p \in Paths |-> p]]

\* Attempts cross.
Crossing == [Base EXCEPT !.sockets = 3]
\* A connection breaks, a handshake packet is late.
Lossy == [Base EXCEPT !.loss = 1, !.timeouts = 1]
\* Two paths, with a listener each or one for both.
TwoListeners == [TwoPaths EXCEPT !.loss = 1]
OneListener == [TwoPaths EXCEPT !.listener = Shared]
\* No answer from the peer, no local address.
Attempts == [Base EXCEPT !.unreachable = 1, !.no_addr = 1]
\* Other versions, secrets and settings.
Handshakes ==
    {[Base EXCEPT !.conf = c] : c \in {With(Old, Plain), With(Old, Recent), With(Secret("one"), Secret("one")),
        With(Secret("one"), Secret("other")), With(Secret("one"), Plain),
        With(Plain, [Plain EXCEPT !.settings = "A"])}}
\* The operator disconnects and connects.
Operator == [Base EXCEPT !.disconnects = 2]

All == {Crossing, Lossy, TwoListeners, OneListener, Attempts, Operator} \cup Handshakes
=============================================================================
