---------------------------- MODULE MCHttpAsync ----------------------------
(* Small instances of HttpAsync for TLC.                                   *)
EXTENDS HttpAsync, TLC

CONSTANTS r1, r2

RequestSymmetry == Permutations({r1, r2})

RewriteAccess == <<"rewrite", "access">>
TwoAccessContent == <<"rewrite", "access", "access", "content">>

AllCodes == {NGX_DECLINED, NGX_OK, NGX_AGAIN, NGX_DONE, 200, 403}
ProceedOrRefuse == {NGX_DECLINED, 403}
Decline == {NGX_DECLINED}
=============================================================================
