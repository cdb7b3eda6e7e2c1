------------------------------ MODULE MCOAuth ------------------------------
(* Two requests reach the listener, any of these: a probe that is no GET,  *)
(* the server's refusal, a callback without a code, this flow's callback,  *)
(* and callbacks of another flow without a state and with another one.     *)
EXTENDS OAuthLoopback

Get(error, code, state) == [method |-> "GET", error |-> error, code |-> code, state |-> state]

MCQueries ==
    { [Get(FALSE, "mine", MyState) EXCEPT !.method = "POST"],
      Get(TRUE, NoCode, MyState), Get(FALSE, NoCode, ""), Get(FALSE, "mine", MyState),
      Get(FALSE, "other", ""), Get(FALSE, "other", "unknown") }
=============================================================================
