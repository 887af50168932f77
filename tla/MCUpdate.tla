------------------------------ MODULE MCUpdate ------------------------------
(***************************************************************************)
(* The node is installed with revision 1 and no identity.  The server may  *)
(* be given revisions 1 and 2, one without the server's address, one that  *)
(* cannot be branded with an identity, and one for another platform.       *)
(***************************************************************************)
EXTENDS Update

CONSTANTS here, there

MCBinary(p, r) ==
  [PLATFORMSTRING |-> p, REVISION |-> r, SERVERADDR |-> Address, AUTHTOKEN |-> Unset,
   IDENTITY |-> Unset]

MCBinaries ==
  {MCBinary(here, 1), MCBinary(here, 2), MCBinary(there, 2),
   [MCBinary(here, 2) EXCEPT !.SERVERADDR = None],
   [MCBinary(here, 2) EXCEPT !.IDENTITY = None],
   [MCBinary(here, 2) EXCEPT !.REVISION = None]}

MCForced == {MCBinary(here, 1)}

MCFirst == [MCBinary(here, 1) EXCEPT !.AUTHTOKEN = Token]
=============================================================================
