------------------------------ MODULE MCStartup ------------------------------
(* An instance of Startup for TLC: main's two routes, and one path again. *)
EXTENDS Startup

CONSTANTS home_page, api_home_page, home_page_test

Paths == {"/", "/api"}
Handlers == {home_page, api_home_page, home_page_test}
MainRoutes == <<<<"/", home_page>>, <<"/api", api_home_page>>, <<"/", home_page_test>>>>
=============================================================================
