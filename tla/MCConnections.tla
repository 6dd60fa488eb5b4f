--------------------------- MODULE MCConnections ---------------------------
EXTENDS Connections

\* Two uploads beside a short request, in every order, and a download beside
\* one of each.
Mixes ==
    {<<"opa", "opa", "bid">>, <<"opa", "bid", "opa">>, <<"bid", "opa", "opa">>,
     <<"sas", "opa", "bid">>, <<"opa", "sas", "bid">>, <<"bid", "opa", "sas">>}
=============================================================================
