------------------------------ MODULE MCBrowser ------------------------------
(***************************************************************************)
(* Instances of Browser for TLC: deployments behind HTTPS and without it,  *)
(* with and without the override of the Secure attribute.                  *)
(***************************************************************************)
EXTENDS Browser, TLC

MCConfigs ==
    { [public_url |-> "http", cookie_secure |-> None],
      [public_url |-> "https", cookie_secure |-> None],
      [public_url |-> "https", cookie_secure |-> FALSE] }

Symmetry == Permutations(Exchanges)
=============================================================================
