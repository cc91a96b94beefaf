--------------------------------- MODULE Routers ---------------------------------
(***************************************************************************)
(* The route trees of web/homework1 and web/homework2 side by side, and    *)
(* what is asked of both.  They have no state in common.                   *)
(***************************************************************************)
EXTENDS Paths

CONSTANTS Registered1, Registered2,  \* the paths that their addRoute is called with
          Requests,                  \* the paths that are requested
          Accepted,                  \* the strings that a regular expression matches
          MaxRoutes                  \* bound: calls of addRoute

VARIABLES nodes1, handler1, calls1,                   \* those of RouterV1
          nodes2, handler2, mdls2, calls2, count2     \* those of RouterV2

router1 == <<nodes1, handler1, calls1>>
router2 == <<nodes2, handler2, mdls2, calls2, count2>>

V1 == INSTANCE RouterV1 WITH nodes <- nodes1, handler <- handler1, calls <- calls1,
                             Registered <- Registered1
V2 == INSTANCE RouterV2 WITH nodes <- nodes2, handler <- handler2, mdls <- mdls2,
                             calls <- calls2, count <- count2, Registered <- Registered2

\* A request reaches the handler of a registered path that covers it, in either tree.
Dispatch == V1!Dispatch /\ V2!Dispatch

\* Around it run the middlewares of the calls whose path matches the request's beginning.
MiddlewareMatched == V2!MiddlewareMatched

\* No call of addRoute, in either tree, replaces a route, but for a final wildcard's.
RoutesStay == V1!RoutesStay /\ V2!RoutesStay
==================================================================================
