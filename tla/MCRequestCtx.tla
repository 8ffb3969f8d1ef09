---------------------------- MODULE MCRequestCtx ----------------------------
(* Instances of RequestCtx for TLC.                                        *)
EXTENDS RequestCtx

MCCodes == {NGX_OK, NGX_DECLINED, 403}

Script(target, plans) == [target |-> target, plans |-> plans]
Handler(phase, plans) == [phase |-> phase, scripts |-> <<Script(NoVar, plans)>>]
SetBlock(scripts) == [phase |-> "set", scripts |-> scripts]

Now == {<<>>}
Naps == {<<>>, <<"sleep">>, <<"sleep", "sleep">>}

Conf(body, handlers) == [body |-> body, handlers |-> handlers]

First == {<<>>, <<Handler("post_read", Now)>>, <<Handler("post_read", Naps)>>}
Last == {<<Handler("access", Now)>>, <<Handler("access", Naps), Handler("content", Now)>>}
BothSet == SetBlock(<<Script("x", Now), Script("y", Now)>>)
LastSetSleeps == SetBlock(<<Script("x", Now), Script("y", Naps)>>)
SubRequests == {<<>>, <<"sub">>, <<"sub", "sub", "sub">>}

\* Bodies that are late with generic handlers waiting for them; bodies that
\* are there or not wanted, with rewrite handlers that sleep, set blocks
\* whose last script sleeps, and subrequests, one or three in a row, from a
\* rewrite handler behind a set block.
MCConfigs ==
    {Conf("late", f \o l) : f \in First, l \in Last}
    \cup {Conf(b, f \o <<Handler("rewrite", Naps)>> \o l) :
            b \in {"off", "early"}, f \in First, l \in Last}
    \cup {Conf(b, f \o s \o <<Handler("access", Now), Handler("content", Now)>>) :
            b \in {"off", "early"}, f \in First,
            s \in {<<LastSetSleeps>>, <<BothSet, Handler("rewrite", SubRequests)>>}}

\* Their handlers wait one after the other, as the proofs suppose.
ASSUME MCSequential == \A c \in MCConfigs : Sequential(c)
=============================================================================
