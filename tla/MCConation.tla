----------------------------- MODULE MCConation -----------------------------
\* Conation with an argument of a fixed size, a text and a file that is as long
\* as the header of a stream.
EXTENDS Conation, TLC

CONSTANTS b, t, f

MCArgs == {b, t, f}
MCTypeOf == b :> "BOOL" @@ t :> "ODHEADER" @@ f :> "FILE"
MCText == b :> 0 @@ t :> 3 @@ f :> 6
=============================================================================
