--------------------------- MODULE MCHttpProvider ---------------------------
(***************************************************************************)
(* A small internet: the caller's host, whose name moves between addresses,*)
(* a second host, an address literal of an internal address, and URLs of   *)
(* every kind that a check or a client turns away.                         *)
(***************************************************************************)
EXTENDS HttpProvider, TLC

CONSTANTS home, other, inner, file, hostless, mangled, broken, port, odd,
          ours, theirs, strange, literal, public, elsewhere, private

MCUrls == {home, other, inner, file, hostless, mangled, broken,
            port, odd}
MCHostOf ==
    home :> ours @@ other :> theirs @@ inner :> literal @@ file :> ours
        @@ hostless :> NoHost @@ mangled :> NoHost @@ broken :> strange @@ port :> ours @@ odd :> theirs
MCLiteralOf == literal :> private
MCAllowlists == {{}, {ours}}
=============================================================================
