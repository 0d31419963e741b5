\* One exchange: URLs with every combination of parts, requests cut by up to 2
\* reads, 3 changes of the servlet table, responses cut by up to 2 writes, 1 error.
SPECIFICATION Spec
CONSTANTS
  Urls <- MCUrls
  Carried <- MCCarried
  Calls <- MCCalls
  Extra <- MCExtra
  Uris <- MCUris
  Paths <- MCPaths
  Patterns <- MCPatterns
  Servlets <- MCServlets
  NotFound <- MCNotFound
  Answer <- MCAnswer
  m_isKeepalive = TRUE
  MaxCalls = 3
  MaxReads = 2
  MaxWrites = 2
  MaxErrors = 1
  None = None
INVARIANT
  UrlIsTakenApart
  ServerSeesRequest
  
  DispatchFollowsCalls
  ResponseArrives
VIEW MCView
CHECK_DEADLOCK FALSE
