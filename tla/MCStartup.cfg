SPECIFICATION Spec
CONSTANTS
  home_page = home_page
  api_home_page = api_home_page
  home_page_test = home_page_test
  Path <- Paths
  Handler <- Handlers
  Routes <- MainRoutes
INVARIANTS TypeOK ServingIsReady EarlySignalStops StartedIsDefined FailedStartReleases
           FirstRegistrationCounts
CHECK_DEADLOCK FALSE
