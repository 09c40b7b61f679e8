----------------------------- MODULE MCHandlerChain -----------------------------
(* A small instance of HandlerChain for TLC: the middlewares of main.cpp, and  *)
(* handlers that answer, return, throw or never return.                        *)
EXTENDS HandlerChain

MCMiddleware ==
  {"recovery", "logger", "timeout", "auth", "answers", "plain", "hangs"}

=============================================================================
