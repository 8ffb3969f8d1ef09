---------------------------- MODULE MCHeaderList ----------------------------
(* Small instances of HeaderList for TLC.                                  *)
EXTENDS HeaderList

CONSTANTS accept, accept_encoding, host

\* Accept-Encoding begins with Accept.
AcceptNames == {accept, accept_encoding}
AcceptBegins == {<<k, k>> : k \in AcceptNames} \cup {<<accept, accept_encoding>>}

\* None begins with another.
ThreeNames == {accept, accept_encoding, host}
PlainBegins == {<<k, k>> : k \in ThreeNames}
=============================================================================
