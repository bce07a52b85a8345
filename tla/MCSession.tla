----------------------------- MODULE MCSession ------------------------------
(* Model checking of Session: nicknames and accounts are interchangeable, and
   so are channels that ChanServ treats alike. *)
EXTENDS Session

Symmetry ==
  Permutations(Nicks) \cup Permutations(Accounts)
    \cup {p \in Permutations(Channels) :
            {p[c] : c \in ChanservChannels} = ChanservChannels}
=============================================================================
