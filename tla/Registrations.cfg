SPECIFICATION Spec
CONSTANTS
    Pins = {p1}
    BluenetTypes = {t1, t2}
    EventTypes = {"BLEDeviceScanned", "BLEConnected", "BLEWritten", "BLENotification"}
    UserCalls = {"attachInterrupt", "listen", "Message.begin", "setBluenetEventHandler", "subscribe", "setEventHandler", "setCharacteristicEventHandler", "BLE.begin", "BLE.end", "scan", "scanFor", "stopScan", "connect", "addService", "yield"}
    Careful = TRUE
    MAX_INTERRUPT_REGISTRATIONS = 3
    MAX_SUBSCRIPTIONS = 1
    MAX_BLE_EVENT_HANDLER_REGISTRATIONS = 2
    MaxNesting = 1
SYMMETRY Symmetry
INVARIANTS
    InterruptsFindHandler
    RefusedLeavesNothing
    EventHandlersBacked
    ScanFlagHonest
    SubscriptionsKept
