-------------------------- MODULE MCAnalysisRequests --------------------------
EXTENDS AnalysisRequests, TLC

Token(kid, exp) ==
    [kid |-> kid, signed |-> TRUE, trusted |-> TRUE, exp |-> exp, consent |-> TRUE]

Deployment(auth, limiter, calls, comes, ticks, rotates, ends) ==
    [auth |-> auth, limiter |-> limiter, calls |-> calls, requests |-> comes,
     ticks |-> ticks, rotations |-> rotates, crashes |-> ends]

\* For the key cache: a token of each key.  What comes after the lookup does not
\* matter, so the claims are not accepted.
KeyCalls == {[Token(k, 9) EXCEPT !.trusted = FALSE] : k \in Kids}

\* For the images: a good call, and calls with one thing wrong each.  The last
\* token runs out.
ImageCalls ==
    {Token("k1", 9),
     [Token("k1", 9) EXCEPT !.consent = FALSE],
     [Token("k1", 9) EXCEPT !.signed = FALSE],
     [Token("k1", 9) EXCEPT !.trusted = FALSE],
     Token("k1", 1)}

\* For the limits: whether the image is sent does not matter.
LimitCalls == {[Token("k1", 99) EXCEPT !.consent = FALSE]}

MCCalls == KeyCalls \cup ImageCalls \cup LimitCalls

MCDeployments ==
    {Deployment("oidc_jwks", "memory", KeyCalls, 3, 3, 1, 1),
     Deployment("oidc_jwks", "memory", ImageCalls, 2, 2, 0, 1),
     Deployment("jwt_hs256", "redis", ImageCalls, 3, 2, 0, 1),
     Deployment("jwt_hs256", "memory", LimitCalls, 4, 8, 0, 0),
     Deployment("jwt_hs256", "redis", LimitCalls, 4, 8, 0, 0)}

Symmetry == Permutations(Requests)
=============================================================================
