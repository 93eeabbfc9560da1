------------------------- MODULE MCServerLifecycle -------------------------
EXTENDS ServerLifecycle

\* server.hpp:27 to 43, backwards.
MCMembers ==
  <<"map_mutex", "whiteboard_sessions", "user_collection",
    "whiteboard_collection", "whiteboard_db", "mongoclient", "instance",
    "thread_pool", "acceptor", "ssl_context", "io_context">>
=============================================================================
