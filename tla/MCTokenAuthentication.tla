------------------------- MODULE MCTokenAuthentication -------------------------
EXTENDS TokenAuthentication

CONSTANTS a, b

Pairs == {<<"okta_totp", "iam_profile">>, <<"okta_browser", "adfs">>,
          <<"sso", "sso">>, <<"secrets", "secrets">>, <<"okta", "iam">>}

MCSetups ==
    {[c \in {a, b} |-> IF c = a THEN pair[1] ELSE pair[2]] : pair \in Pairs}
===============================================================================
