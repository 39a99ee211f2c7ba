--------------------------- MODULE MCSupplyAudit ---------------------------
EXTENDS SupplyAudit

\* B + H < M, and less burned in hiding than is left: the defaults of the
\* script (1000000, 400000, 200000) are of this shape; in the last one the
\* change of the contract burn has the value of the coin it comes from.
Ordinary == { [M |-> 5, B |-> 2, H |-> 1], [M |-> 4, B |-> 1, H |-> 1],
              [M |-> 4, B |-> 0, H |-> 1] }

\* More burned than minted: through the contract, and in hiding.
Oversized == { [M |-> 1, B |-> 2, H |-> 1], [M |-> 2, B |-> 1, H |-> 2] }

OrdinaryAndOversized == Ordinary \cup Oversized

\* 900, 300, 300 in the README: the hidden burn equals what is left.
HalfHidden == { [M |-> 3, B |-> 1, H |-> 1] }

\* B + H = M, the bound the README allows.
NothingLeft == { [M |-> 2, B |-> 1, H |-> 1] }
=============================================================================
