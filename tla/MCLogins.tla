------------------------------ MODULE MCLogins ------------------------------
(* The flows over pages for TLC: one page for each thing that a look of    *)
(* theirs can tell apart, and two for those that two looks disagree about. *)
EXTENDS RegisterFlow

Shown(url, inputs, buttons, texts) ==
  [url |-> url, inputs |-> inputs, buttons |-> buttons, texts |-> texts]

LoginPages ==
  {Shown("login", {"email"}, {"continue"}, {}),
   Shown("login", {}, {"log in"}, {"session ended"}),
   Shown("login", {}, {}, {}),
   Shown("password", {"password"}, {"continue"}, {"enter your password"}),
   Shown("password", {}, {"one-time code"}, {"enter your password"}),
   Shown("login", {}, {"try again"}, {"timed out"}),
   Shown("password", {"password"}, {}, {"oops"}),
   Shown("login", {"email"}, {}, {"human"}),
   Shown("challenge", {}, {}, {"challenge"}),
   Shown("community", {}, {"log in"}, {})}

CodePages ==
  {Shown("verify", {"code"}, {"resend"}, {"check your inbox"}),
   Shown("verify", {"code"}, {}, {"incorrect code"}),
   Shown("verify", {}, {}, {"max attempts"}),
   Shown("unified", {}, {"send code"}, {})}

ErrorPages ==
  {Shown("error", {}, {"try again"}, {"oops", "auth error"}),
   Shown("error", {}, {}, {"auth error (code)"}),
   Shown("error", {}, {}, {"deactivated"}),
   Shown("error", {}, {}, {"broken"})}

SignUpPages ==
  {Shown("create", {"password"}, {"continue"}, {"create a password"}),
   Shown("create", {}, {"one-time code"}, {"create a password", "failed to create"}),
   Shown("about", {"name", "birthday"}, {"finish"}, {"about-you form"}),
   Shown("about", {"birthday"}, {}, {"terms"}),
   Shown("phone", {}, {}, {"phone required"})}

LastPages ==
  {Shown("consent", {}, {"continue"}, {}), Shown("callback", {}, {}, {}),
   Shown("webCallback", {}, {}, {}), Shown("home", {}, {}, {}), DeadPage}

Pages == LoginPages \union CodePages \union ErrorPages \union SignUpPages \union LastPages

Asked(camoufox, web, community, password) ==
  [camoufox |-> camoufox, web |-> web, community |-> community, password |-> password]

(* Repairs of either backend with and without a password, and web logins,  *)
(* one of them from the community's site.                                  *)
Settings ==
  {Asked(TRUE, FALSE, FALSE, TRUE), Asked(FALSE, FALSE, FALSE, TRUE),
   Asked(TRUE, FALSE, FALSE, FALSE), Asked(TRUE, TRUE, FALSE, TRUE),
   Asked(FALSE, TRUE, TRUE, FALSE)}

WithProxyAndWithout == {<<"direct">>, <<"direct", "proxy">>}
=============================================================================
