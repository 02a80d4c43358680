---------------------------- MODULE MCMcpSession ----------------------------
EXTENDS McpSession
=============================================================================
