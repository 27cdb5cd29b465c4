---------------------------- MODULE MCOAuthLogin ----------------------------
(* A small instance of OAuthLogin for TLC: two tabs of one browser, one of another. *)
EXTENDS OAuthLogin, TLC

CONSTANTS t1, t2, t3, home, away, member, stranger

MCTabs == {t1, t2, t3}
MCBrowsers == {home, away}
MCBrowserOf == (t1 :> home) @@ (t2 :> home) @@ (t3 :> away)
MCUsers == {member, stranger}
MCMembers == {member}
=============================================================================
