----------------------------- MODULE MCCodeConf -----------------------------
(* Small instances of CodeConf for TLC.                                    *)
EXTENDS CodeConf

CONSTANTS http, server, location, other

\* http { server { location { } location { } } }
HttpBlocks == {http, server, location, other}
HttpParent ==
    [b \in HttpBlocks |->
       CASE b = http -> Main [] b = server -> http [] OTHER -> server]
=============================================================================
