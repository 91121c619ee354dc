----------------------------- MODULE MCKeychain -----------------------------
EXTENDS Keychain

Ask(op, service, account, secret) ==
    [op |-> op, service |-> service, account |-> account, secret |-> secret]

Cases == [B |-> "b"]

\* Two entries that may be there at once, a name that Windows would join to the text of the first
\* without the rule on '/', a name that is not UTF-8 and a secret that is no C string.
SomeRequests ==
    { Ask("store", <<"a">>, <<"b", Slash, "c">>, <<"x">>),
      Ask("store", <<"a">>, <<"b", Slash, "c">>, <<"x", Nul>>),
      Ask("store", <<"a">>, <<"c">>, <<"y">>),
      Ask("store", <<"a", Slash, "b">>, <<"c">>, <<"x">>),
      Ask("load", <<"a">>, <<"b", Slash, "c">>, <<>>),
      Ask("load", <<"a">>, <<NotUtf8>>, <<>>),
      Ask("remove", <<"a">>, <<"b", Slash, "c">>, <<>>) }

\* Accounts that differ after a NUL, or in case; one account and one secret too long for Windows.
OneForThePlatform ==
    { Ask("store", <<"a">>, <<"b">>, <<"x">>),
      Ask("store", <<"a">>, <<"b", Nul, "c">>, <<"y">>),
      Ask("store", <<"a">>, <<"B">>, <<"z">>),
      Ask("store", <<"a">>, <<"c", "c", "c", "c">>, <<"y">>),
      Ask("store", <<"a">>, <<"c">>, <<"y", "y", "y">>),
      Ask("load", <<"a">>, <<"b">>, <<>>) }
=============================================================================
