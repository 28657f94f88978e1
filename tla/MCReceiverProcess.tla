-------------------------- MODULE MCReceiverProcess --------------------------
EXTENDS ReceiverProcess, TLC

CONSTANTS base, auto, own

MCPrefixes == {base, auto, own}

Node == [name |-> "node", run_mode |-> "competition", source |-> "file",
         samples |-> 3, loop |-> TRUE, offset |-> 1, rate |-> 2, mixed |-> TRUE,
         script |-> TRUE, adi |-> TRUE, allow_stub |-> FALSE, start |-> TRUE,
         record |-> TRUE, allow_no_key |-> FALSE]
Replay == [Node EXCEPT !.name = "replay", !.record = FALSE, !.allow_stub = TRUE]
Sweep  == [Node EXCEPT !.name = "sweep", !.source = "pluto"]

\* Recordings shorter and longer than a block, read over and over or once;
\* missing; hardware; and what fails before anything is started.
MCPrograms ==
    {Node,
     [Node EXCEPT !.samples = 7, !.offset = 2],
     [Node EXCEPT !.samples = 7, !.loop = FALSE, !.offset = 0, !.mixed = FALSE],
     [Node EXCEPT !.samples = 0],
     [Node EXCEPT !.run_mode = "debug"],
     [Node EXCEPT !.source = "pluto"],
     [Node EXCEPT !.source = "pluto", !.adi = FALSE],
     [Node EXCEPT !.script = FALSE],
     [Node EXCEPT !.start = FALSE],
     Replay,
     [Replay EXCEPT !.samples = 7, !.loop = FALSE, !.offset = 9, !.adi = FALSE],
     [Replay EXCEPT !.samples = 0, !.allow_no_key = TRUE],
     Sweep,
     [Sweep EXCEPT !.adi = FALSE, !.allow_stub = TRUE]}
=============================================================================
