--------------------------- MODULE MCStreamWindows --------------------------
EXTENDS StreamWindows

MCModes == [kind : {"open", "protected", "finite"},
            feedback : {"trailing_buffer", "measurement_closed"},
            policy : {"baseline", "switching"}]
           \ [kind : {"finite"}, feedback : {"measurement_closed"},
              policy : {"baseline", "switching"}]
MCBody == [open |-> <<4>>, protected |-> <<3, 1>>, finite |-> <<2>>]
MCBlocking == [open |-> {1}, protected |-> {1}, finite |-> {1}]
\* two segments on one unprotected stream, the second waiting for the first
ChainModes == [kind : {"open"}, feedback : {"trailing_buffer"}, policy : {"baseline"}]
ChainBody == [open |-> <<2, 2>>]
ChainBlocking == [open |-> {1}]
=============================================================================
